---------------------------- MODULE Spec2Model ----------------------------
(***************************************************************************)
(* A model of the ntl library (IImpaq/mtl): the reader-writer lock         *)
(* os/SharedLock, the open-addressing hash table data/Map, the dynamic     *)
(* array data/Array, the mutex os/Lock with the condition variable         *)
(* os/Condition, data/String, and the singly linked list data/List.  Each  *)
(* component has its own specification; the variables of the components a  *)
(* specification does not exercise stay at their parked initial value.     *)
(*                                                                         *)
(* The model is of the default build (NDEBUG not defined), in which        *)
(* core/Platform.hpp defines NTL_DEBUG and VERIFY(cond) aborts the process *)
(* when cond is false (core/Assert.hpp).                                   *)
(***************************************************************************)
EXTENDS Integers, Sequences, FiniteSets, TLC

(***************************************************************************)
(* Bounds of the model.                                                    *)
(***************************************************************************)
\* number of threads that use the SharedLock
NThreads == 3
\* Map keys are the integers 0..MaxKey
MaxKey == 2
\* largest capacity a Map is constructed with
MaxInitCapacity == 2
\* largest capacity a Map is resized to
MaxCapacity == 4
\* Array elements are the integers 0..MaxValue
MaxValue == 1
\* largest capacity an Array is constructed with
ArrMaxInitCapacity == 2
\* largest capacity an Array grows, is resized or is copied to
ArrMaxCapacity == 4
\* the number of different chars the calls give a String
MaxChar == 2
\* longest string literal a String call is given
StrMaxLen == 3
\* longest String the calls build
StrMaxUsed == 4
\* largest capacity a String is resized to
StrMaxCapacity == 8
\* largest number of element nodes of a List that are allocated at a time
MaxNodes == 2

Threads == 1..NThreads

VARIABLES
  \* ---- os/SharedLock ----
  m_mutex,            \* pthread_mutex_t m_mutex: 0 = free, else the holding thread
  m_no_writers_left,  \* pthread_cond_t: the set of threads blocked on it
  m_is_only_access,   \* pthread_cond_t: the set of threads blocked on it
  m_reader_count,     \* int m_reader_count
  m_writer_count,     \* int m_writer_count
  m_is_writing,       \* bool m_is_writing
  pc,                 \* per thread: where it is in StartRead/EndRead/StartWrite/EndWrite
  \* ---- data/Map<int, int> ----
  map,                \* the Map object: m_entries, m_capacity, m_used, m_grow_factor, m_growable
  map_status,         \* "ok", or how a call ended the run: "abort" (VERIFY), "hang", "crash"
  map_stopped_in,     \* the Map operation that aborted or hangs, "" while map_status = "ok"
  \* ---- data/Array<int> ----
  array,              \* the Array object: m_data, allocated, m_used, m_capacity, m_sorted, ...
  array_status,       \* "ok", or how a call ended the run: "abort" (VERIFY), "crash"
  array_stopped_in,   \* the Array operation that aborted or crashed, "" while "ok"
  \* ---- os/Lock and os/Condition ----
  lock_mutex,         \* Lock::m_mutex: 0 = free, else the holding thread
  m_condition,        \* Condition::m_condition: the set of threads blocked on it
  lpc,                \* per thread: where it is in Condition::Wait
  wait_acquire,       \* per thread: the a_acquire of its last call of Wait
  woken_by,           \* per thread: what ended the block of its last Wait
  \* ---- data/String ----
  string,             \* the String object: m_data, allocated, m_used, m_capacity
  string_status,      \* "ok", or how a call ended the run: "abort" (VERIFY), "crash"
  string_stopped_in,  \* the String operation that aborted or crashed, "" while "ok"
  \* ---- data/List<int> ----
  list,               \* the List object and its nodes: next, value, live, m_head, m_tail, m_size
  list_status,        \* "ok", or how a call ended the run: "abort" (VERIFY), "hang", "crash"
  list_stopped_in     \* the List operation that aborted or crashed, "" while "ok"

slVars == <<m_mutex, m_no_writers_left, m_is_only_access, m_reader_count,
            m_writer_count, m_is_writing, pc>>

mapVars == <<map, map_status, map_stopped_in>>

arrVars == <<array, array_status, array_stopped_in>>

condVars == <<lock_mutex, m_condition, lpc, wait_acquire, woken_by>>

strVars == <<string, string_status, string_stopped_in>>

listVars == <<list, list_status, list_stopped_in>>

vars == <<m_mutex, m_no_writers_left, m_is_only_access, m_reader_count,
          m_writer_count, m_is_writing, pc, map, map_status, map_stopped_in,
          array, array_status, array_stopped_in,
          lock_mutex, m_condition, lpc, wait_acquire, woken_by,
          string, string_status, string_stopped_in,
          list, list_status, list_stopped_in>>

\* the variables of the components an action of one component leaves alone
otherThanSharedLock == <<mapVars, arrVars, condVars, strVars, listVars>>
otherThanMap == <<slVars, arrVars, condVars, strVars, listVars>>
otherThanArray == <<slVars, mapVars, condVars, strVars, listVars>>
otherThanCondition == <<slVars, mapVars, arrVars, strVars, listVars>>
otherThanString == <<slVars, mapVars, arrVars, condVars, listVars>>
otherThanList == <<slVars, mapVars, arrVars, condVars, strVars>>

(***************************************************************************)
(*                             os/SharedLock                               *)
(*                                                                         *)
(* pc values of a thread:                                                  *)
(*   idle       outside the lock                                           *)
(*   sr_lock    in StartRead, at pthread_mutex_lock or re-acquiring the    *)
(*              mutex inside pthread_cond_wait after a wake-up             *)
(*   sr_test    in StartRead holding the mutex, at the while test          *)
(*   sr_wait    in StartRead, blocked in pthread_cond_wait                 *)
(*   reading    returned from StartRead, EndRead not yet called            *)
(*   er_lock    in EndRead, at pthread_mutex_lock                          *)
(*   er_body    in EndRead holding the mutex                               *)
(*   sw_lock    in StartWrite, at pthread_mutex_lock                       *)
(*   sw_inc     in StartWrite holding the mutex, before ++m_writer_count   *)
(*   sw_test    in StartWrite holding the mutex, at the while test         *)
(*   sw_wait    in StartWrite, blocked in pthread_cond_wait                *)
(*   sw_relock  in StartWrite, re-acquiring the mutex after a wake-up      *)
(*   writing    returned from StartWrite, EndWrite not yet called          *)
(*   ew_lock    in EndWrite, at pthread_mutex_lock                         *)
(*   ew_body    in EndWrite holding the mutex                              *)
(***************************************************************************)
SharedLockInit ==
  /\ m_mutex = 0
  /\ m_no_writers_left = {}
  /\ m_is_only_access = {}
  /\ m_reader_count = 0
  /\ m_writer_count = 0
  /\ m_is_writing = FALSE
  /\ pc = [t \in Threads |-> "idle"]

\* pthread_mutex_lock(&m_mutex): blocks until the mutex is free, then takes it
MutexLock(t, to) ==
  /\ m_mutex = 0
  /\ m_mutex' = t
  /\ pc' = [pc EXCEPT ![t] = to]
  /\ UNCHANGED <<m_no_writers_left, m_is_only_access, m_reader_count,
                 m_writer_count, m_is_writing>>
  /\ UNCHANGED otherThanSharedLock

\* a broadcast that wakes no thread
Broadcast_None(pcs, waiters, to) == pcs

\* pthread_cond_broadcast(cond): every thread blocked on cond leaves the wait and
\* goes on to re-acquire the mutex; pcs is pc with the caller already updated
Broadcast(pcs, waiters, to) ==
  [u \in Threads |-> IF u \in waiters THEN to ELSE pcs[u]]

\* StartRead: while (m_writer_count != 0)
StartReadMustWait_IsWriting == m_is_writing
StartReadMustWait == m_writer_count # 0

\* StartWrite: while (m_reader_count != 0 || m_is_writing)
StartWriteMustWait_ReadersOnly == m_reader_count # 0
StartWriteMustWait == m_reader_count # 0 \/ m_is_writing

\* a thread calls StartRead and arrives at pthread_mutex_lock
StartRead_Call(t) ==
  /\ UNCHANGED otherThanSharedLock
  /\ pc[t] = "idle"
  /\ pc' = [pc EXCEPT ![t] = "sr_lock"]
  /\ UNCHANGED <<m_mutex, m_no_writers_left, m_is_only_access, m_reader_count,
                 m_writer_count, m_is_writing>>

StartRead_Lock(t) ==
  /\ pc[t] = "sr_lock"
  /\ MutexLock(t, "sr_test")

\* the while test of StartRead: pthread_cond_wait (which releases the mutex),
\* or ++m_reader_count, pthread_mutex_unlock and return
StartRead_Test(t) ==
  /\ UNCHANGED otherThanSharedLock
  /\ pc[t] = "sr_test"
  /\ m_mutex = t
  /\ IF StartReadMustWait
       THEN /\ m_no_writers_left' = m_no_writers_left \cup {t}
            /\ pc' = [pc EXCEPT ![t] = "sr_wait"]
            /\ UNCHANGED m_reader_count
       ELSE /\ m_reader_count' = m_reader_count + 1
            /\ pc' = [pc EXCEPT ![t] = "reading"]
            /\ UNCHANGED m_no_writers_left
  /\ m_mutex' = 0
  /\ UNCHANGED <<m_is_only_access, m_writer_count, m_is_writing>>

StartWrite_Call(t) ==
  /\ UNCHANGED otherThanSharedLock
  /\ pc[t] = "idle"
  /\ pc' = [pc EXCEPT ![t] = "sw_lock"]
  /\ UNCHANGED <<m_mutex, m_no_writers_left, m_is_only_access, m_reader_count,
                 m_writer_count, m_is_writing>>

StartWrite_Lock(t) ==
  /\ pc[t] = "sw_lock"
  /\ MutexLock(t, "sw_inc")

\* ++m_writer_count, before the first while test
StartWrite_Inc(t) ==
  /\ UNCHANGED otherThanSharedLock
  /\ pc[t] = "sw_inc"
  /\ m_mutex = t
  /\ m_writer_count' = m_writer_count + 1
  /\ pc' = [pc EXCEPT ![t] = "sw_test"]
  /\ UNCHANGED <<m_mutex, m_no_writers_left, m_is_only_access, m_reader_count,
                 m_is_writing>>

\* the while test of StartWrite: pthread_cond_wait, or m_is_writing = true,
\* pthread_mutex_unlock and return
StartWrite_Test(t) ==
  /\ UNCHANGED otherThanSharedLock
  /\ pc[t] = "sw_test"
  /\ m_mutex = t
  /\ IF StartWriteMustWait
       THEN /\ m_is_only_access' = m_is_only_access \cup {t}
            /\ pc' = [pc EXCEPT ![t] = "sw_wait"]
            /\ UNCHANGED m_is_writing
       ELSE /\ m_is_writing' = TRUE
            /\ pc' = [pc EXCEPT ![t] = "writing"]
            /\ UNCHANGED m_is_only_access
  /\ m_mutex' = 0
  /\ UNCHANGED <<m_no_writers_left, m_reader_count, m_writer_count>>

\* a woken writer re-acquires the mutex inside pthread_cond_wait
StartWrite_Relock(t) ==
  /\ pc[t] = "sw_relock"
  /\ MutexLock(t, "sw_test")

EndRead_Call(t) ==
  /\ UNCHANGED otherThanSharedLock
  /\ pc[t] = "reading"
  /\ pc' = [pc EXCEPT ![t] = "er_lock"]
  /\ UNCHANGED <<m_mutex, m_no_writers_left, m_is_only_access, m_reader_count,
                 m_writer_count, m_is_writing>>

EndRead_Lock(t) ==
  /\ pc[t] = "er_lock"
  /\ MutexLock(t, "er_body")

\* --m_reader_count; broadcast m_is_only_access if it is 0 and a writer is
\* counted; pthread_mutex_unlock
EndRead_Body(t) ==
  /\ UNCHANGED otherThanSharedLock
  /\ pc[t] = "er_body"
  /\ m_mutex = t
  /\ m_reader_count' = m_reader_count - 1
  /\ IF m_reader_count' = 0 /\ m_writer_count > 0
       THEN /\ pc' = Broadcast([pc EXCEPT ![t] = "idle"], m_is_only_access, "sw_relock")
            /\ m_is_only_access' = {}
       ELSE /\ pc' = [pc EXCEPT ![t] = "idle"]
            /\ UNCHANGED m_is_only_access
  /\ m_mutex' = 0
  /\ UNCHANGED <<m_no_writers_left, m_writer_count, m_is_writing>>

EndWrite_Call(t) ==
  /\ UNCHANGED otherThanSharedLock
  /\ pc[t] = "writing"
  /\ pc' = [pc EXCEPT ![t] = "ew_lock"]
  /\ UNCHANGED <<m_mutex, m_no_writers_left, m_is_only_access, m_reader_count,
                 m_writer_count, m_is_writing>>

EndWrite_Lock(t) ==
  /\ pc[t] = "ew_lock"
  /\ MutexLock(t, "ew_body")

\* --m_writer_count; m_is_writing = false; broadcast m_is_only_access if a
\* writer is still counted, else m_no_writers_left; pthread_mutex_unlock
EndWrite_Body(t) ==
  /\ UNCHANGED otherThanSharedLock
  /\ pc[t] = "ew_body"
  /\ m_mutex = t
  /\ m_writer_count' = m_writer_count - 1
  /\ m_is_writing' = FALSE
  /\ IF m_writer_count' > 0
       THEN /\ pc' = Broadcast([pc EXCEPT ![t] = "idle"], m_is_only_access, "sw_relock")
            /\ m_is_only_access' = {}
            /\ UNCHANGED m_no_writers_left
       ELSE /\ pc' = Broadcast([pc EXCEPT ![t] = "idle"], m_no_writers_left, "sr_lock")
            /\ m_no_writers_left' = {}
            /\ UNCHANGED m_is_only_access
  /\ m_mutex' = 0
  /\ UNCHANGED m_reader_count

\* pthread_cond_wait may return without a signal (POSIX spurious wake-up); the
\* caller then re-acquires the mutex and tests its while condition again
SpuriousWakeup(t) ==
  /\ UNCHANGED otherThanSharedLock
  /\ \/ /\ pc[t] = "sr_wait"
        /\ m_no_writers_left' = m_no_writers_left \ {t}
        /\ pc' = [pc EXCEPT ![t] = "sr_lock"]
        /\ UNCHANGED m_is_only_access
     \/ /\ pc[t] = "sw_wait"
        /\ m_is_only_access' = m_is_only_access \ {t}
        /\ pc' = [pc EXCEPT ![t] = "sw_relock"]
        /\ UNCHANGED m_no_writers_left
  /\ UNCHANGED <<m_mutex, m_reader_count, m_writer_count, m_is_writing>>

\* the steps a thread takes once it is inside a call and holds the mutex
SharedLockRun(t) ==
  \/ StartRead_Test(t)
  \/ StartWrite_Inc(t)
  \/ StartWrite_Test(t)
  \/ EndRead_Body(t)
  \/ EndWrite_Body(t)

\* the steps in which a thread takes the mutex
SharedLockAcquire(t) ==
  \/ StartRead_Lock(t)
  \/ StartWrite_Lock(t)
  \/ StartWrite_Relock(t)
  \/ EndRead_Lock(t)
  \/ EndWrite_Lock(t)

\* the calls that give the lock back
SharedLockEnd(t) ==
  \/ EndRead_Call(t)
  \/ EndWrite_Call(t)

SharedLockNext ==
  \E t \in Threads :
    \/ StartRead_Call(t)
    \/ StartWrite_Call(t)
    \/ SharedLockEnd(t)
    \/ SharedLockAcquire(t)
    \/ SharedLockRun(t)
    \/ SpuriousWakeup(t)


(***************************************************************************)
(*                          data/Map<int, int>                             *)
(*                                                                         *)
(* The Map object is the record map; a slot of m_entries is a record       *)
(* [key, value, used].  new Entry[n] leaves key and value of an int/int    *)
(* entry indeterminate and every read of them is guarded by .used, so an   *)
(* unused slot is modelled with key = value = 0 until it is written.       *)
(* m_grow_factor is a Float; it is modelled as the fraction <<num, den>>.  *)
(* For 1/2 (exact in binary) and 7/10 (the default 0.7) and capacities     *)
(* this small, used >= capacity * grow_factor in float arithmetic is the   *)
(* comparison used * den >= capacity * num.                                *)
(***************************************************************************)
Keys == 0..MaxKey
Values == {1}
GrowFactors == {<<1, 2>>, <<7, 10>>}

\* the slot new Entry[n] yields once the constructor has cleared .used
FreshEntry == [key |-> 0, value |-> 0, used |-> FALSE]

\* Map(a_capacity, a_algorithm, a_grow_factor, a_growable)
NewMap(a_capacity, a_grow_factor, a_growable) ==
  [m_entries     |-> [i \in 0..(a_capacity - 1) |-> FreshEntry],
   m_capacity    |-> a_capacity,
   m_used        |-> 0,
   m_grow_factor |-> a_grow_factor,
   m_growable    |-> a_growable]

\* keyToIndex for an integral key: static_cast<Size>(a_key) % m_capacity
keyToIndex(m, a_key) == a_key % m.m_capacity

\* the probe loop shared by find, Insert and Remove:
\*   while (m_entries[index].used) { if (key == a_key) ...; index = (index+1) % m_capacity; }
\* n counts the slots visited.  The result tells how the loop ends: at a slot with
\* the key ("equal"), at an unused slot ("unused"), or never ("loop": every slot is
\* used and none holds the key, so the loop runs round the table forever).
RECURSIVE probe(_, _, _, _)
probe(m, a_key, index, n) ==
  IF n = m.m_capacity
    THEN [end |-> "loop", index |-> index]
    ELSE IF ~m.m_entries[index].used
      THEN [end |-> "unused", index |-> index]
      ELSE IF m.m_entries[index].key = a_key
        THEN [end |-> "equal", index |-> index]
        ELSE probe(m, a_key, (index + 1) % m.m_capacity, n + 1)

\* Map::find: the slot of the entry, -1 for nullptr, "loop" when it does not return
find(m, a_key) ==
  LET p == probe(m, a_key, keyToIndex(m, a_key), 0)
  IN  [end   |-> IF p.end = "loop" THEN "loop" ELSE "return",
       entry |-> IF p.end = "equal" THEN p.index ELSE -1]

\* Map::Exists: return find(a_key), the pointer converted to Bool.  The
\* result is [value, end]; end is "return", or "loop" when find does not
\* return
Exists(m, a_key) ==
  LET f == find(m, a_key)
  IN  [value |-> f.end = "return" /\ f.entry # -1, end |-> f.end]

\* the placement loop of Resize: while (m_entries[index].used) index = (index+1) % m_capacity
RECURSIVE firstUnused(_, _, _)
firstUnused(entries, capacity, index) ==
  IF ~entries[index].used THEN index
  ELSE firstUnused(entries, capacity, (index + 1) % capacity)

\* the rehash loop of Resize over the old slots i, i+1, ..., old_capacity - 1
RECURSIVE rehash(_, _, _, _, _)
rehash(old_entries, old_capacity, i, entries, capacity) ==
  IF i >= old_capacity THEN entries
  ELSE IF ~old_entries[i].used
    THEN rehash(old_entries, old_capacity, i + 1, entries, capacity)
    ELSE LET index == firstUnused(entries, capacity, old_entries[i].key % capacity)
         IN  rehash(old_entries, old_capacity, i + 1,
                    [entries EXCEPT ![index] = [key   |-> old_entries[i].key,
                                                 value |-> old_entries[i].value,
                                                 used  |-> TRUE]],
                    capacity)

\* Map::Resize.  The result is [map, end]; end is "return" or "abort" (VERIFY)
Resize(m, a_new_capacity) ==
  IF ~(a_new_capacity >= m.m_used) \/ ~(a_new_capacity > m.m_capacity)
    THEN [map |-> m, end |-> "abort"]
    ELSE [map |-> [m EXCEPT
                     !.m_capacity = a_new_capacity,
                     !.m_entries  = rehash(m.m_entries, m.m_capacity, 0,
                                           [i \in 0..(a_new_capacity - 1) |-> FreshEntry],
                                           a_new_capacity)],
          end |-> "return"]

\* Insert: if (m_growable && m_used >= m_capacity * m_grow_factor); the factor
\* is the fraction m_grow_factor[1] / m_grow_factor[2]
MustGrow(m) ==
  m.m_growable /\ m.m_used * m.m_grow_factor[2] >= m.m_capacity * m.m_grow_factor[1]

\* Insert: int index = keyToIndex(a_key), on the table g that the Resize left
InsertStart_BeforeResize(m, g, a_key) == keyToIndex(m, a_key)
InsertStart(m, g, a_key) == keyToIndex(g, a_key)

\* Map::Insert.  The result is [map, end]; end is "return", "loop", or
\* "abort" when a VERIFY of the Resize fails
Insert(m, a_key, a_value) ==
  LET grown == IF MustGrow(m) THEN Resize(m, m.m_capacity * 2)
                              ELSE [map |-> m, end |-> "return"]
      g == grown.map
      p == probe(g, a_key, InsertStart(m, g, a_key), 0)
  IN  CASE grown.end = "abort" ->
             [map |-> m, end |-> "abort"]
        [] p.end = "equal" ->
             [map |-> [g EXCEPT !.m_entries[p.index].value = a_value],
              end |-> "return"]
        [] p.end = "unused" ->
             [map |-> [g EXCEPT !.m_entries[p.index] =
                                   [key |-> a_key, value |-> a_value, used |-> TRUE],
                                !.m_used = g.m_used + 1],
              end |-> "return"]
        [] p.end = "loop" ->
             [map |-> g, end |-> "loop"]

\* Remove: m_entries[index].used = false; m_used--.  The key and value the
\* code leaves in the slot are never read while used is false; the model
\* resets them.
RemoveSlot(m, index) ==
  [m EXCEPT !.m_entries[index] = FreshEntry, !.m_used = m.m_used - 1]

Remove(m, a_key) ==
  LET p == probe(m, a_key, keyToIndex(m, a_key), 0)
  IN  CASE p.end = "equal"  -> [map |-> RemoveSlot(m, p.index), end |-> "return"]
        [] p.end = "unused" -> [map |-> m, end |-> "abort"]
        [] p.end = "loop"   -> [map |-> m, end |-> "loop"]

\* Map::Get.  The result is [value, end]; end is "return", "abort" or "loop"
Get(m, a_key) ==
  LET f == find(m, a_key)
  IN  CASE f.end = "loop"  -> [value |-> 0, end |-> "loop"]
        [] f.entry = -1    -> [value |-> 0, end |-> "abort"]
        [] OTHER           -> [value |-> m.m_entries[f.entry].value, end |-> "return"]

\* Map::At.  The result is [map, value, end]; Insert(a_key, {}) stores the value 0
At(m, a_key) ==
  LET f == find(m, a_key)
  IN  CASE f.end = "loop" -> [map |-> m, value |-> 0, end |-> "loop"]
        [] f.entry # -1   -> [map |-> m, value |-> m.m_entries[f.entry].value, end |-> "return"]
        [] OTHER ->
             LET r == Insert(m, a_key, 0)
                 e == find(r.map, a_key)
             IN  IF r.end = "loop" \/ e.end = "loop"
                   THEN [map |-> r.map, value |-> 0, end |-> "loop"]
                   ELSE [map |-> r.map, value |-> r.map.m_entries[e.entry].value,
                         end |-> "return"]

\* Map::GetSize
GetSize(m) == m.m_used

\* the insert loop of the copy constructors:
\*   for (Size i = 0; i < m_capacity; ++i) {
\*     if (!a_other.m_entries[i].used) continue;
\*     Insert(a_other.m_entries[i].key, a_other.m_entries[i].value); }
\* m_capacity is that of the copy and doubles when an Insert grows the copy;
\* from then on the loop loads a_other.m_entries[i] behind the buffer of
\* a_other (oob).  past is the memory there: past[i] is the entry the load
\* of slot i yields, each slot its own.  Where past ends the copy has
\* outgrown the capacities that are explored, and the loop is followed no
\* further.
RECURSIVE copyEntries(_, _, _, _, _)
copyEntries(m, a_other, i, oob, past) ==
  IF i >= m.m_capacity \/ (i >= a_other.m_capacity /\ i \notin DOMAIN past)
    THEN [map |-> m, end |-> "return", oob |-> oob]
    ELSE LET inside == i < a_other.m_capacity
             e      == IF inside THEN a_other.m_entries[i] ELSE past[i]
         IN  IF ~e.used
               THEN copyEntries(m, a_other, i + 1, oob \/ ~inside, past)
               ELSE LET r == Insert(m, e.key, e.value)
                    IN  IF r.end # "return"
                          THEN [map |-> r.map, end |-> r.end, oob |-> oob \/ ~inside]
                          ELSE copyEntries(r.map, a_other, i + 1, oob \/ ~inside, past)

\* the member initialisers of the copy constructors and the loop that clears
\* .used: m_capacity{a_other.m_capacity}, m_used{a_other.m_used}, ...
CopyMembers(a_other) ==
  [a_other EXCEPT !.m_entries = [i \in 0..(a_other.m_capacity - 1) |-> FreshEntry]]

\* Map::Map(const Map& a_other).  The result is [map, end, oob]
CopyMap(a_other, past) == copyEntries(CopyMembers(a_other), a_other, 0, FALSE, past)

\* Map::Map(const Map& a_other, Size a_capacity): the same, then Resize(a_capacity)
CopyMapWithCapacity(a_other, a_capacity, past) ==
  LET c == CopyMap(a_other, past)
      r == Resize(c.map, a_capacity)
  IN  IF c.end # "return" THEN c
      ELSE [map |-> r.map, end |-> r.end, oob |-> c.oob]

\* Map::begin: while (!ptr->used && ptr != (m_entries + m_capacity)) ptr++.
\* The test loads ptr->used before it compares ptr with the end, so at the
\* end it loads the .used of m_entries[m_capacity], behind the buffer of
\* m_capacity entries; the loop ends there whatever the load gives.
RECURSIVE beginFrom(_, _)
beginFrom(m, ptr) ==
  IF ptr = m.m_capacity
    THEN [ptr |-> ptr, oob |-> TRUE]
    ELSE IF m.m_entries[ptr].used
      THEN [ptr |-> ptr, oob |-> FALSE]
      ELSE beginFrom(m, ptr + 1)

begin(m) == beginFrom(m, 0)

\* Map::end
end(m) == m.m_capacity

\* Iterator::operator++: do { m_ptr++; } while (m_ptr->used == false), with
\* no test for the end.  At m_entries[m_capacity] the load is from the memory
\* behind the buffer; past is what it gives.  If it gives true the iterator
\* stops at end(); if it gives false the loop goes on through that memory and
\* the iterator stops at some slot behind end(), written m_capacity + 1.
RECURSIVE increment(_, _, _)
increment(m, ptr, past) ==
  IF ptr + 1 < m.m_capacity
    THEN IF m.m_entries[ptr + 1].used
           THEN [ptr |-> ptr + 1, oob |-> FALSE]
           ELSE increment(m, ptr + 1, past)
    ELSE [ptr |-> IF past THEN m.m_capacity ELSE m.m_capacity + 1, oob |-> TRUE]

\* for (auto it = begin(); it != end(); ++it): the slots the loop body sees,
\* in the order it sees them, up to the end of the buffer
RECURSIVE iterateFrom(_, _, _, _, _)
iterateFrom(m, ptr, visited, oob, past) ==
  IF ptr >= m.m_capacity
    THEN [visited |-> visited, ptr |-> ptr, oob |-> oob]
    ELSE LET n == increment(m, ptr, past)
         IN  iterateFrom(m, n.ptr, Append(visited, ptr), oob \/ n.oob, past)

Iterate(m, past) == iterateFrom(m, begin(m).ptr, <<>>, begin(m).oob, past)

\* how a call that ends with e leaves the run
StatusAfter(e) ==
  CASE e = "return" -> "ok"
    [] e = "abort"  -> "abort"
    [] e = "loop"   -> "hang"

\* the operation a run stopped in, when the call did not return
StoppedIn(e, name) == IF e = "return" THEN "" ELSE name

MapInit ==
  /\ \E c \in 1..MaxInitCapacity, f \in GrowFactors, g \in BOOLEAN :
       map = NewMap(c, f, g)
  /\ map_status = "ok"
  /\ map_stopped_in = ""

\* the Map of a specification that does not use it
MapParked ==
  /\ map = NewMap(1, <<7, 10>>, TRUE)
  /\ map_status = "ok"
  /\ map_stopped_in = ""

\* a call of Insert(k, v); the doubling it may do stays within MaxCapacity
MapInsert(k, v) ==
  /\ UNCHANGED otherThanMap
  /\ map_status = "ok"
  /\ MustGrow(map) => map.m_capacity * 2 <= MaxCapacity
  /\ LET r == Insert(map, k, v)
     IN  /\ map' = r.map
         /\ map_status' = StatusAfter(r.end)
         /\ map_stopped_in' = StoppedIn(r.end, "Insert")

\* a call of At(k)
MapAt(k) ==
  /\ UNCHANGED otherThanMap
  /\ map_status = "ok"
  /\ MustGrow(map) => map.m_capacity * 2 <= MaxCapacity
  /\ LET r == At(map, k)
     IN  /\ map' = r.map
         /\ map_status' = StatusAfter(r.end)
         /\ map_stopped_in' = StoppedIn(r.end, "At")

\* a call of Remove(k)
MapRemove(k) ==
  /\ UNCHANGED otherThanMap
  /\ map_status = "ok"
  /\ LET r == Remove(map, k)
     IN  /\ map' = r.map
         /\ map_status' = StatusAfter(r.end)
         /\ map_stopped_in' = StoppedIn(r.end, "Remove")

\* a call of Resize(c)
MapResize(c) ==
  /\ UNCHANGED otherThanMap
  /\ map_status = "ok"
  /\ LET r == Resize(map, c)
     IN  /\ map' = r.map
         /\ map_status' = StatusAfter(r.end)
         /\ map_stopped_in' = StoppedIn(r.end, "Resize")

\* a call of Get(k)
MapGet(k) ==
  /\ UNCHANGED otherThanMap
  /\ map_status = "ok"
  /\ LET r == Get(map, k)
     IN  /\ map' = map
         /\ map_status' = StatusAfter(r.end)
         /\ map_stopped_in' = StoppedIn(r.end, "Get")

\* a call of Exists(k)
MapExists(k) ==
  /\ UNCHANGED otherThanMap
  /\ map_status = "ok"
  /\ LET r == Exists(map, k)
     IN  /\ map' = map
         /\ map_status' = StatusAfter(r.end)
         /\ map_stopped_in' = StoppedIn(r.end, "Exists")

\* an iteration over the whole map with begin(), end() and operator++.  It
\* leaves the loop when the iterator is equal to end(); an iterator that has
\* passed end() goes on through the memory behind the buffer, and so does the
\* run, until it crashes.
MapIterate(past) ==
  /\ UNCHANGED otherThanMap
  /\ map_status = "ok"
  /\ LET v == Iterate(map, past)
     IN  \E o \in (IF v.ptr = end(map) THEN {"ok"} ELSE {}) \cup
                  (IF v.oob THEN {"crash"} ELSE {}) :
           /\ map' = map
           /\ map_status' = o
           /\ map_stopped_in' = IF o = "ok" THEN "" ELSE "Iterator"

\* what a load of an entry behind the buffer of a_other can yield: an entry
\* that is not marked used, or one that is, with any key and any value (0,
\* the value At stores, among them)
PastEntries ==
  {FreshEntry} \cup
  {[key |-> k, value |-> v, used |-> TRUE] : k \in Keys, v \in {0} \cup Values}

\* the memory behind the buffer of a_other, as far as the copy loop can get
\* while the copy stays within the capacities that are explored: one entry
\* for each of the slots m_capacity .. MaxCapacity - 1
PastLoads(a_other) == [a_other.m_capacity..(MaxCapacity - 1) -> PastEntries]

\* How a copy construction can end the step: "ok" (it returned), "abort" or
\* "hang" as the call says, and "crash" as one more outcome of a
\* construction that went outside the buffer of a_other.  The copy takes
\* the place of the map; its growth stays within the capacities, and its
\* m_used within the counts, that the model explores.
MapCopyStep(r, name) ==
  /\ r.map.m_capacity <= MaxCapacity
  /\ r.map.m_used <= 2 * MaxCapacity
  /\ \E o \in {StatusAfter(r.end)} \cup (IF r.oob THEN {"crash"} ELSE {}) :
       /\ map' = IF o = "ok" THEN r.map ELSE map
       /\ map_status' = o
       /\ map_stopped_in' = IF o = "ok" THEN "" ELSE name

\* Map copy(map)
MapCopy(past) ==
  /\ UNCHANGED otherThanMap
  /\ map_status = "ok"
  /\ MapCopyStep(CopyMap(map, past), "Map(const Map&)")

\* Map copy(map, c)
MapCopyWithCapacity(c, past) ==
  /\ UNCHANGED otherThanMap
  /\ map_status = "ok"
  /\ MapCopyStep(CopyMapWithCapacity(map, c, past), "Map(const Map&, Size)")

MapNext ==
  \/ \E k \in Keys, v \in Values : MapInsert(k, v)
  \/ \E k \in Keys : MapAt(k)
  \/ \E k \in Keys : MapRemove(k)
  \/ \E c \in 1..MaxCapacity : MapResize(c)
  \/ \E k \in Keys : MapGet(k)
  \/ \E k \in Keys : MapExists(k)
  \/ \E past \in BOOLEAN : MapIterate(past)

\* the Map operations and the two copy constructors
MapCopyNext ==
  \/ MapNext
  \/ \E past \in PastLoads(map) : MapCopy(past)
  \/ \E c \in 1..MaxCapacity, past \in PastLoads(map) : MapCopyWithCapacity(c, past)

(***************************************************************************)
(*                            data/Array<int>                              *)
(*                                                                         *)
(* The Array object is the record array:                                   *)
(*   m_data        the ArrayChunk buffer, a function from the slot indices *)
(*                 0, 1, ... to the stored value                           *)
(*   allocated     the number of chunks the new[] that made m_data asked   *)
(*                 for (the code keeps it in m_capacity only as long as    *)
(*                 the two agree)                                          *)
(*   m_used, m_capacity, m_sorted, m_keep_sorted, m_growable               *)
(*   damaged       a store of an earlier call went past the end of a       *)
(*                 buffer, into the memory the allocator keeps its records *)
(*                 in                                                      *)
(* An access to m_data[i] with i < 0 or i >= allocated is outside the      *)
(* buffer and undefined behaviour; the call then either crashes or goes on *)
(* with the memory next to the buffer: a store past the end is kept in     *)
(* m_data beyond allocated, and damaged is true from then on.  A later     *)
(* call that runs new[] or delete[] (Resize, a growing Insert, Clear, the  *)
(* copies, GetSubArray, mergeSort) either goes on or is ended by the       *)
(* allocator, which aborts the program when it finds its records           *)
(* overwritten.  The content of a chunk nothing was stored in              *)
(* is indeterminate: m_data carries the mark Uninit for it, a copy of the  *)
(* chunk carries the mark along, and a load of its value can give any      *)
(* value, chosen anew by each call.  The chunks below m_used have all been *)
(* stored in (LiveStored), so the loads the code keeps below m_used give   *)
(* the stored value.                                                       *)
(***************************************************************************)
ArrValues == 0..MaxValue

\* the mark of a chunk whose content is indeterminate: nothing was stored in
\* it since new[] (ArrayChunk() {} leaves the memory as it was).  It is not
\* a value any load gives.
Uninit == -1

\* the values a load of an indeterminate chunk can give: whatever the memory
\* held, which may be equal to an element or to none
Indeterminate == ArrValues \cup {MaxValue + 1}

SortAlgorithms == {"DYNAMIC", "INSERTION_SORT", "QUICK_SORT", "MERGE_SORT"}

\* dynamicSort: if (m_used > 64)
DynamicSortThreshold == 64

\* new ArrayChunk[n]
NewChunks(n) == [i \in 0..(n - 1) |-> Uninit]

\* the chunk m_data[i], as a copy m_data[j] = m_data[i] takes it and as a
\* load below m_used finds it: the value stored in it, or the mark Uninit
CellAt(d, i) == IF i \in DOMAIN d THEN d[i] ELSE Uninit

\* a load of the value of m_data[i]; junk is what the memory of an
\* indeterminate chunk holds at this load
ReadAt(d, i, junk) == IF CellAt(d, i) = Uninit THEN junk ELSE CellAt(d, i)

\* a store to m_data[i]
WriteAt(d, i, v) ==
  IF i \in DOMAIN d
    THEN [d EXCEPT ![i] = v]
    ELSE [j \in 0..i |-> IF j \in DOMAIN d THEN d[j] ELSE IF j = i THEN v ELSE Uninit]

\* Array::Array(a_capacity, a_keep_sorted, a_growable)
NewArray(a_capacity, a_keep_sorted, a_growable) ==
  [m_data        |-> NewChunks(a_capacity),
   allocated     |-> a_capacity,
   m_used        |-> 0,
   m_capacity    |-> a_capacity,
   m_sorted      |-> TRUE,
   m_keep_sorted |-> a_keep_sorted,
   m_growable    |-> a_growable,
   damaged       |-> FALSE]

\* m_data holds a chunk past the end of the buffer: a store m_data[i] = ...
\* with i >= allocated put it there
StoredOutside(a) == \E i \in DOMAIN a.m_data : i >= a.allocated

\* the array as a call leaves it: the memory behind the buffer stays
\* overwritten once a store went there
Damage(a) == [a EXCEPT !.damaged = @ \/ StoredOutside(a)]

\* How a call ends: it returns a_value and leaves the array a, or a VERIFY
\* aborts; oob says that the call accessed memory outside the buffer, or
\* ran new[] or delete[] after a store outside a buffer.
Returns(a, a_value, oob) ==
  [arr |-> Damage(a), end |-> "return", value |-> a_value, oob |-> oob]
Aborts(a, oob) == [arr |-> a, end |-> "abort", value |-> 0, oob |-> oob]

\* Array::Resize
ArrResize(a, a_capacity) ==
  IF ~(a_capacity >= a.m_used) \/ ~(a_capacity > a.m_capacity)
    THEN Aborts(a, FALSE)
    ELSE Returns([a EXCEPT !.m_capacity = a_capacity,
                           !.m_data = [i \in 0..(a_capacity - 1) |->
                                         IF i < a.m_used THEN CellAt(a.m_data, i) ELSE Uninit],
                           !.allocated = a_capacity],
                 0, a.m_used > a.allocated \/ a.damaged)

\* insertionSort with a while loop that never moves an element
insertionShift_Stop(d, j, temp) == [d |-> d, j |-> j, oob |-> FALSE]

\* insertionSort: while (m_data[j].value > temp.value && j >= 0); m_data[j] is
\* loaded before j >= 0 is tested, so at j = -1 the test loads m_data[-1].
\* These are bytes of the element count that new[] keeps in front of the
\* chunks of a type with a destructor (ArrayChunk has one), so the load stays
\* inside the allocation, and whatever it gives the test is false by j >= 0.
RECURSIVE insertionShift(_, _, _)
insertionShift(d, j, temp) ==
  IF j < 0
    THEN [d |-> d, j |-> j, oob |-> FALSE]
    ELSE IF CellAt(d, j) > temp
      THEN insertionShift(WriteAt(d, j + 1, CellAt(d, j)), j - 1, temp)
      ELSE [d |-> d, j |-> j, oob |-> FALSE]

\* insertionSort: for (int i = 1; i < m_used; ++i)
RECURSIVE insertionLoop(_, _, _, _)
insertionLoop(d, i, used, oob) ==
  IF i < used
    THEN LET temp == CellAt(d, i)
             s    == insertionShift(d, i - 1, temp)
         IN  insertionLoop(WriteAt(s.d, s.j + 1, temp), i + 1, used, oob \/ s.oob)
    ELSE [d |-> d, oob |-> oob]

\* Array::insertionSort
insertionSort(a) ==
  LET r == insertionLoop(a.m_data, 1, a.m_used, a.m_used > a.allocated)
  IN  [arr |-> [a EXCEPT !.m_data = r.d, !.m_sorted = TRUE], oob |-> r.oob]

\* Swap without the last line, m_sorted = false
Swap_KeepFlag(a, a_first, a_second) ==
  IF ~(a_first < a.m_used) \/ ~(a_second < a.m_used)
    THEN Aborts(a, FALSE)
    ELSE Returns([a EXCEPT !.m_data = WriteAt(WriteAt(@, a_first, CellAt(a.m_data, a_second)),
                                              a_second, CellAt(a.m_data, a_first))],
                 0, a_first >= a.allocated \/ a_second >= a.allocated)

\* Swap without the temporary: the second store copies the new m_data[a_first]
Swap_NoTemp(a, a_first, a_second) ==
  IF ~(a_first < a.m_used) \/ ~(a_second < a.m_used)
    THEN Aborts(a, FALSE)
    ELSE Returns([a EXCEPT !.m_data = WriteAt(@, a_first, CellAt(a.m_data, a_second)),
                           !.m_sorted = FALSE],
                 0, a_first >= a.allocated \/ a_second >= a.allocated)

\* Array::Swap
Swap(a, a_first, a_second) ==
  IF ~(a_first < a.m_used) \/ ~(a_second < a.m_used)
    THEN Aborts(a, FALSE)
    ELSE LET temp == CellAt(a.m_data, a_first)
             d1   == WriteAt(a.m_data, a_first, CellAt(a.m_data, a_second))
             d2   == WriteAt(d1, a_second, temp)
         IN  Returns([a EXCEPT !.m_data = d2, !.m_sorted = FALSE], 0,
                     a_first >= a.allocated \/ a_second >= a.allocated)

\* partition: for (I64 j = a_from; j < a_to; ++j); pivot is a reference to
\* m_data[a_to].value
RECURSIVE partitionLoop(_, _, _, _)
partitionLoop(a, i, j, a_to) ==
  IF j < a_to
    THEN IF CellAt(a.m_data, j) <= CellAt(a.m_data, a_to)
           THEN partitionLoop(Swap(a, i + 1, j).arr, i + 1, j + 1, a_to)
           ELSE partitionLoop(a, i, j + 1, a_to)
    ELSE [arr |-> a, i |-> i]

\* Array::partition
partition(a, a_from, a_to) ==
  LET l == partitionLoop(a, a_from - 1, a_from, a_to)
  IN  [arr |-> Swap(l.arr, l.i + 1, a_to).arr, k |-> l.i + 1]

\* Array::quickSort
RECURSIVE quickSort(_, _, _)
quickSort(a, a_from, a_to) ==
  IF a.m_used = 0
    THEN a
    ELSE IF a_from >= a_to
      THEN [a EXCEPT !.m_sorted = TRUE]
      ELSE LET p == partition(a, a_from, a_to)
           IN  quickSort(quickSort(p.arr, a_from, p.k - 1), p.k + 1, a_to)

\* mergeSort(a_array, a_capacity, a_used): the merge loop
RECURSIVE mergeLoop(_, _, _, _, _, _, _, _, _)
mergeLoop(result, array1, array2, i, j, k, a_used, size1, size2) ==
  IF i < a_used
    THEN IF (j < size1) /\ (k = size2 \/ CellAt(array1, j) <= CellAt(array2, k))
           THEN mergeLoop(WriteAt(result, i, CellAt(array1, j)), array1, array2,
                          i + 1, j + 1, k, a_used, size1, size2)
           ELSE mergeLoop(WriteAt(result, i, CellAt(array2, k)), array1, array2,
                          i + 1, j, k + 1, a_used, size1, size2)
    ELSE result

\* Array::mergeSort(a_array, a_capacity, a_used); a_array is m_data + off and
\* limit is the length of the buffer m_data
RECURSIVE mergeSort(_, _, _, _, _)
mergeSort(d, off, a_capacity, a_used, limit) ==
  IF a_used <= 1
    THEN [d |-> [i \in 0..0 |-> CellAt(d, off)], oob |-> off >= limit]
    ELSE LET size1  == a_used \div 2
             size2  == a_used - size1
             array1 == mergeSort(d, off, size1, size1, limit)
             array2 == mergeSort(d, off + size1, size2, size2, limit)
         IN  [d   |-> mergeLoop(NewChunks(a_capacity), array1.d, array2.d,
                                0, 0, 0, a_used, size1, size2),
              oob |-> array1.oob \/ array2.oob \/ a_used > a_capacity]

\* Array::mergeSort()
mergeSortArray(a) ==
  LET temp == mergeSort(a.m_data, 0, a.m_capacity, a.m_used, a.allocated)
  IN  [arr |-> [a EXCEPT !.m_data = temp.d,
                         !.allocated = IF a.m_used <= 1 THEN 1 ELSE a.m_capacity,
                         !.m_sorted = TRUE],
       oob |-> temp.oob \/ a.damaged]

\* Array::dynamicSort
dynamicSort(a) ==
  IF a.m_used > DynamicSortThreshold THEN mergeSortArray(a) ELSE insertionSort(a)

\* Array::Sort
Sort(a, a_algorithm) ==
  LET s == CASE a_algorithm = "DYNAMIC"        -> dynamicSort(a)
             [] a_algorithm = "INSERTION_SORT" -> insertionSort(a)
             [] a_algorithm = "QUICK_SORT"     ->
                  [arr |-> quickSort(a, 0, a.m_used - 1), oob |-> a.m_used > a.allocated]
             [] a_algorithm = "MERGE_SORT"     -> mergeSortArray(a)
  IN  Returns(s.arr, 0, s.oob)

\* Array::binarySearch
RECURSIVE binarySearch(_, _, _, _)
binarySearch(d, a_element, a_from, a_to) ==
  IF a_from = a_to
    THEN a_from
    ELSE IF a_from > a_to
      THEN -1
      ELSE LET pivot == (a_from + a_to) \div 2
           IN  IF a_element < CellAt(d, pivot)
                 THEN binarySearch(d, a_element, a_from, pivot - 1)
                 ELSE IF a_element > CellAt(d, pivot)
                   THEN binarySearch(d, a_element, pivot + 1, a_to)
                   ELSE pivot

\* Array::frontBackSearch
RECURSIVE frontBackSearch(_, _, _, _)
frontBackSearch(d, a_element, a_from, a_to) ==
  IF a_from <= a_to
    THEN IF CellAt(d, a_from) = a_element
           THEN a_from
           ELSE IF CellAt(d, a_to) = a_element
             THEN a_to
             ELSE frontBackSearch(d, a_element, a_from + 1, a_to - 1)
    ELSE -1

\* Array::Find(a_element)
Find(a, a_element) ==
  IF a.m_used = 0
    THEN -1
    ELSE IF a.m_sorted
      THEN binarySearch(a.m_data, a_element, 0, a.m_used - 1)
      ELSE frontBackSearch(a.m_data, a_element, 0, a.m_used - 1)

\* Array::Insert(a_element)
ArrInsert(a, a_element) ==
  LET g == IF a.m_growable /\ a.m_used >= a.m_capacity
             THEN ArrResize(a, a.m_capacity * 2)
             ELSE Returns(a, 0, FALSE)
      b == [g.arr EXCEPT !.m_data = WriteAt(@, g.arr.m_used, a_element),
                         !.m_used = @ + 1]
      s == IF b.m_keep_sorted
             THEN insertionSort(b)
             ELSE [arr |-> [b EXCEPT !.m_sorted = FALSE], oob |-> FALSE]
  IN  IF g.end = "abort"
        THEN g
        ELSE IF ~(g.arr.m_used < g.arr.m_capacity)
          THEN Aborts(a, g.oob)
          ELSE Returns(s.arr, s.arr.m_used - 1,
                       g.oob \/ g.arr.m_used >= g.arr.allocated \/ s.oob)

\* Insert(a_element, a_index) without the loop that moves the suffix
insertShift_None(d, i, a_index) == d

\* Insert(a_element, a_index): for (Size i = m_used; i > a_index; --i)
RECURSIVE insertShift(_, _, _)
insertShift(d, i, a_index) ==
  IF i > a_index
    THEN insertShift(WriteAt(d, i, CellAt(d, i - 1)), i - 1, a_index)
    ELSE d

\* Array::Insert(a_element, a_index)
ArrInsertAt(a, a_element, a_index) ==
  LET g == IF a_index >= a.m_capacity /\ a.m_growable
             THEN ArrResize(a, a.m_capacity * 2)
             ELSE Returns(a, 0, FALSE)
      b == [g.arr EXCEPT !.m_data = WriteAt(insertShift(@, g.arr.m_used, a_index),
                                            a_index, a_element),
                         !.m_used = @ + 1]
      s == IF b.m_keep_sorted
             THEN insertionSort(b)
             ELSE [arr |-> [b EXCEPT !.m_sorted = FALSE], oob |-> FALSE]
  IN  IF ~(a_index <= a.m_used)
        THEN Aborts(a, FALSE)
        ELSE IF g.end = "abort"
          THEN g
          ELSE IF ~(a_index < g.arr.m_capacity)
            THEN Aborts(a, g.oob)
            ELSE Returns(s.arr, 0, g.oob \/ g.arr.m_used >= g.arr.allocated \/ s.oob)

\* Remove: for (Size i = a_index; i < m_used; i++) m_data[i] = m_data[i + 1]
RECURSIVE removeShift(_, _, _)
removeShift(d, i, used) ==
  IF i < used
    THEN removeShift(WriteAt(d, i, CellAt(d, i + 1)), i + 1, used)
    ELSE d

\* Array::Remove; the value is what the returned reference m_data[a_index]
\* refers to when the call returns.  For the last element that is the copy
\* of m_data[m_used], a chunk that is not in use.
ArrRemove(a, a_index, junk) ==
  IF ~(a_index < a.m_used)
    THEN Aborts(a, FALSE)
    ELSE LET d == removeShift(a.m_data, a_index, a.m_used)
         IN  Returns([a EXCEPT !.m_data = d, !.m_used = @ - 1],
                     ReadAt(d, a_index, junk), a.m_used >= a.allocated)

\* Array::RemoveElement; it does not use the reference Remove returns
RemoveElement(a, a_element) ==
  LET index == Find(a, a_element)
      r     == ArrRemove(a, index, CHOOSE junk \in Indeterminate : TRUE)
  IN  IF index < 0
        THEN Returns(a, -1, a.m_used > a.allocated)
        ELSE [r EXCEPT !.value = index, !.oob = @ \/ a.m_used > a.allocated]

\* Array::Clear()
Clear(a) ==
  Returns([a EXCEPT !.m_data = NewChunks(a.m_capacity), !.allocated = a.m_capacity,
                    !.m_sorted = TRUE, !.m_used = 0], 0, a.damaged)

\* Array::Clear(a_capacity)
ClearTo(a, a_capacity) ==
  Returns([a EXCEPT !.m_capacity = a_capacity, !.m_data = NewChunks(a_capacity),
                    !.allocated = a_capacity, !.m_sorted = TRUE, !.m_used = 0],
          0, a.damaged)

\* Array(const Array&): for (Size i = 0; i < m_used; i++) m_data[i].value = ...
RECURSIVE copyLoop(_, _, _, _)
copyLoop(d, other_data, i, used) ==
  IF i < used
    THEN copyLoop(WriteAt(d, i, CellAt(other_data, i)), other_data, i + 1, used)
    ELSE d

\* Array::Array(const Array& a_other): the buffer has a_other.m_capacity
\* chunks, m_capacity is m_used * 2
CopyArray(a_other) ==
  Returns([m_data        |-> copyLoop(NewChunks(a_other.m_capacity), a_other.m_data,
                                      0, a_other.m_used),
           allocated     |-> a_other.m_capacity,
           m_used        |-> a_other.m_used,
           m_capacity    |-> a_other.m_used * 2,
           m_sorted      |-> a_other.m_sorted,
           m_keep_sorted |-> a_other.m_keep_sorted,
           m_growable    |-> a_other.m_growable,
           damaged       |-> a_other.damaged],
          0, \/ a_other.m_used > a_other.m_capacity
             \/ a_other.m_used > a_other.allocated
             \/ a_other.damaged)

\* Array::Array(const Array& a_other, a_capacity); new ArrayChunk[a_capacity]
\* runs before the VERIFY
CopyArrayWithCapacity(a_other, a_capacity) ==
  IF ~(a_capacity > a_other.m_used)
    THEN Aborts(a_other, a_other.damaged)
    ELSE Returns([m_data        |-> [i \in 0..(a_capacity - 1) |->
                                       IF i < a_other.m_used
                                         THEN CellAt(a_other.m_data, i) ELSE Uninit],
                  allocated     |-> a_capacity,
                  m_used        |-> a_other.m_used,
                  m_capacity    |-> a_capacity,
                  m_sorted      |-> a_other.m_sorted,
                  m_keep_sorted |-> a_other.m_keep_sorted,
                  m_growable    |-> a_other.m_growable,
                  damaged       |-> a_other.damaged],
                 0, a_other.m_used > a_other.allocated \/ a_other.damaged)

\* GetSubArray: for (Size i = a_from; i < a_to; ++i)
\*   result.m_data[result.m_used++] = m_data[i]
RECURSIVE subArrayLoop(_, _, _, _)
subArrayLoop(result, d, i, a_to) ==
  IF i < a_to
    THEN subArrayLoop([result EXCEPT !.m_data = WriteAt(@, result.m_used, CellAt(d, i)),
                                     !.m_used = @ + 1],
                      d, i + 1, a_to)
    ELSE result

\* GetSubArray without result.m_sorted = m_sorted: the flag of the result
\* is the true its constructor sets
SubArrayFlag_Constructed(a) == TRUE

\* GetSubArray: result.m_sorted = m_sorted
SubArrayFlag(a) == a.m_sorted

\* Array::GetSubArray; the array it returns is the local result (the copy
\* on return is elided).  The constructor of result is given m_sorted as its
\* a_keep_sorted, and aborts on a capacity of 0; result.m_sorted = m_sorted
\* follows it.
GetSubArray(a, a_from, a_to) ==
  IF ~(a_from < a_to) \/ ~(a_from < a.m_used) \/ ~(a_to < a.m_used)
    THEN Aborts(a, FALSE)
    ELSE IF ~(a_to - a_from > 0)
      THEN Aborts(a, FALSE)
      ELSE Returns(subArrayLoop([NewArray(a_to - a_from, a.m_sorted, a.m_growable)
                                   EXCEPT !.m_sorted = SubArrayFlag(a),
                                          !.damaged = a.damaged],
                                a.m_data, a_from, a_to),
                   0, a_to > a.allocated \/ a.damaged)

\* Array::Get and operator[] (const and non-const): VERIFY(a_index < m_used)
ArrGet(a, a_index) ==
  IF ~(a_index < a.m_used)
    THEN Aborts(a, FALSE)
    ELSE Returns(a, CellAt(a.m_data, a_index), a_index >= a.allocated)

\* Array::GetFirst: return m_data[0].value, with no test of m_used
GetFirst(a, junk) == Returns(a, ReadAt(a.m_data, 0, junk), a.allocated = 0)

\* Array::GetLast: return m_data[m_used - 1].value, with no test of m_used.
\* On an empty array the Size m_used - 1 wraps round and the slot is the one
\* in front of the buffer, m_data[-1], inside the element count of new[].
GetLast(a, junk) ==
  Returns(a, ReadAt(a.m_data, a.m_used - 1, junk), a.m_used > a.allocated)

\* How a call can end the step: "ok" (it returned), "abort" (a VERIFY
\* failed), and "crash" as one more outcome of a call that went outside the
\* buffer, or that ran new[] or delete[] after a store outside a buffer
ArrayOutcomes(r) ==
  (IF r.end = "abort" THEN {"abort"} ELSE {"ok"}) \cup (IF r.oob THEN {"crash"} ELSE {})

\* One call on the array, ending as r says
ArrayStep(r, name) ==
  \E o \in ArrayOutcomes(r) :
    /\ array' = IF o = "ok" THEN r.arr ELSE array
    /\ array_status' = o
    /\ array_stopped_in' = IF o = "ok" THEN "" ELSE name

ArrayInit ==
  /\ \E c \in 1..ArrMaxInitCapacity, ks \in BOOLEAN, g \in BOOLEAN :
       array = NewArray(c, ks, g)
  /\ array_status = "ok"
  /\ array_stopped_in = ""

ArrayParked ==
  /\ array = NewArray(1, FALSE, FALSE)
  /\ array_status = "ok"
  /\ array_stopped_in = ""

\* the doubling of Insert stays within the capacities the model explores
ArrayGrowthInBounds(grows) == grows => array.m_capacity * 2 <= ArrMaxCapacity

ArrayInsert(e) ==
  /\ UNCHANGED otherThanArray
  /\ array_status = "ok"
  /\ ArrayGrowthInBounds(array.m_growable /\ array.m_used >= array.m_capacity)
  /\ ArrayStep(ArrInsert(array, e), "Insert")

ArrayInsertAt(e, idx) ==
  /\ UNCHANGED otherThanArray
  /\ array_status = "ok"
  /\ array.m_used <= ArrMaxCapacity
  /\ ArrayGrowthInBounds(array.m_growable /\ idx >= array.m_capacity)
  /\ ArrayStep(ArrInsertAt(array, e, idx), "InsertAt")

ArrayRemove(idx) ==
  /\ UNCHANGED otherThanArray
  /\ array_status = "ok"
  /\ \E junk \in Indeterminate : ArrayStep(ArrRemove(array, idx, junk), "Remove")

ArrayRemoveElement(e) ==
  /\ UNCHANGED otherThanArray
  /\ array_status = "ok"
  /\ ArrayStep(RemoveElement(array, e), "RemoveElement")

ArraySwap(i, j) ==
  /\ UNCHANGED otherThanArray
  /\ array_status = "ok"
  /\ ArrayStep(Swap(array, i, j), "Swap")

ArraySort(alg) ==
  /\ UNCHANGED otherThanArray
  /\ array_status = "ok"
  /\ ArrayStep(Sort(array, alg), "Sort")

ArrayResize(c) ==
  /\ UNCHANGED otherThanArray
  /\ array_status = "ok"
  /\ ArrayStep(ArrResize(array, c), "Resize")

ArrayClear ==
  /\ UNCHANGED otherThanArray
  /\ array_status = "ok"
  /\ ArrayStep(Clear(array), "Clear")

ArrayClearTo(c) ==
  /\ UNCHANGED otherThanArray
  /\ array_status = "ok"
  /\ ArrayStep(ClearTo(array, c), "Clear")

ArrayCopy ==
  /\ UNCHANGED otherThanArray
  /\ array_status = "ok"
  /\ array.m_used * 2 <= ArrMaxCapacity
  /\ ArrayStep(CopyArray(array), "Array")

ArrayCopyWithCapacity(c) ==
  /\ UNCHANGED otherThanArray
  /\ array_status = "ok"
  /\ ArrayStep(CopyArrayWithCapacity(array, c), "Array")

\* GetSubArray; the run goes on with the array that was returned
ArrayGetSubArray(from, to) ==
  /\ UNCHANGED otherThanArray
  /\ array_status = "ok"
  /\ ArrayStep(GetSubArray(array, from, to), "GetSubArray")

\* Get(idx) or operator[](idx)
ArrayGet(idx) ==
  /\ UNCHANGED otherThanArray
  /\ array_status = "ok"
  /\ ArrayStep(ArrGet(array, idx), "Get")

ArrayGetFirst ==
  /\ UNCHANGED otherThanArray
  /\ array_status = "ok"
  /\ \E junk \in Indeterminate : ArrayStep(GetFirst(array, junk), "GetFirst")

ArrayGetLast ==
  /\ UNCHANGED otherThanArray
  /\ array_status = "ok"
  /\ \E junk \in Indeterminate : ArrayStep(GetLast(array, junk), "GetLast")

ArrayNext ==
  \/ \E e \in ArrValues : ArrayInsert(e)
  \/ \E e \in ArrValues, idx \in 0..ArrMaxCapacity : ArrayInsertAt(e, idx)
  \/ \E idx \in 0..ArrMaxCapacity : ArrayRemove(idx)
  \/ \E e \in ArrValues : ArrayRemoveElement(e)
  \/ \E i \in 0..ArrMaxCapacity, j \in 0..ArrMaxCapacity : ArraySwap(i, j)
  \/ \E alg \in SortAlgorithms : ArraySort(alg)
  \/ \E c \in 0..ArrMaxCapacity : ArrayResize(c)
  \/ ArrayClear
  \/ \E c \in 0..ArrMaxCapacity : ArrayClearTo(c)
  \/ ArrayCopy
  \/ \E c \in 0..ArrMaxCapacity : ArrayCopyWithCapacity(c)
  \/ \E from \in 0..ArrMaxCapacity, to \in 0..ArrMaxCapacity : ArrayGetSubArray(from, to)
  \/ \E idx \in 0..ArrMaxCapacity : ArrayGet(idx)
  \/ ArrayGetFirst
  \/ ArrayGetLast

\* every chunk below m_used has been stored in: an invariant of SpecArray
LiveStored ==
  \A i \in 0..(array.m_used - 1) : i \in DOMAIN array.m_data /\ array.m_data[i] # Uninit

(***************************************************************************)
(*                        os/Lock and os/Condition                         *)
(*                                                                         *)
(* One Lock and one Condition bound to it, used by the threads.  A thread  *)
(* holds the lock when lock_mutex is the thread.  lpc values of a thread:  *)
(*   out        not inside Condition::Wait                                 *)
(*   waiting    in Wait, blocked in pthread_cond_wait                      *)
(*   woken      in Wait, unblocked, re-acquiring the mutex inside          *)
(*              pthread_cond_wait                                          *)
(*   relocked   in Wait, pthread_cond_wait has returned with the mutex     *)
(*   wait_done  Wait has returned and the thread has made no call since    *)
(* Acquire blocks inside pthread_mutex_lock until the mutex is free; a     *)
(* blocked call is an action that is not enabled.                          *)
(***************************************************************************)
\* the errno value pthread_mutex_trylock returns for a mutex that is locked
EBUSY == 16

LockInit ==
  /\ lock_mutex = 0
  /\ m_condition = {}
  /\ lpc = [t \in Threads |-> "out"]
  /\ wait_acquire = [t \in Threads |-> TRUE]
  /\ woken_by = [t \in Threads |-> "none"]

\* the thread is not inside a call and may make one
Outside(t) == lpc[t] \in {"out", "wait_done"}

\* pthread_mutex_trylock: 0 and the mutex taken, or EBUSY and nothing changed
pthread_mutex_trylock(mutex, t) ==
  IF mutex = 0 THEN [mutex |-> t, code |-> 0] ELSE [mutex |-> mutex, code |-> EBUSY]

\* Lock::TryAcquire: return pthread_mutex_trylock(&m_mutex), the int converted
\* to bool (non-zero is true)
TryAcquire(mutex, t) ==
  LET r == pthread_mutex_trylock(mutex, t)
  IN  [mutex |-> r.mutex, value |-> r.code # 0]

\* Lock::Acquire by a thread that does not hold the lock
LockAcquire(t) ==
  /\ UNCHANGED otherThanCondition
  /\ Outside(t)
  /\ lock_mutex = 0
  /\ lock_mutex' = t
  /\ lpc' = [lpc EXCEPT ![t] = "out"]
  /\ UNCHANGED <<m_condition, wait_acquire, woken_by>>

\* Lock::TryAcquire by a thread that does not hold the lock
LockTryAcquire(t) ==
  /\ UNCHANGED otherThanCondition
  /\ Outside(t)
  /\ lock_mutex # t
  /\ lock_mutex' = TryAcquire(lock_mutex, t).mutex
  /\ lpc' = [lpc EXCEPT ![t] = "out"]
  /\ UNCHANGED <<m_condition, wait_acquire, woken_by>>

\* Lock::Release by the thread that holds the lock
LockRelease(t) ==
  /\ UNCHANGED otherThanCondition
  /\ Outside(t)
  /\ lock_mutex = t
  /\ lock_mutex' = 0
  /\ lpc' = [lpc EXCEPT ![t] = "out"]
  /\ UNCHANGED <<m_condition, wait_acquire, woken_by>>

\* Condition::Wait(a_acquire) by the thread that holds the lock, up to the
\* block: pthread_cond_wait releases the mutex and blocks the thread
ConditionWait(t, a_acquire) ==
  /\ UNCHANGED otherThanCondition
  /\ Outside(t)
  /\ lock_mutex = t
  /\ lock_mutex' = 0
  /\ m_condition' = m_condition \cup {t}
  /\ lpc' = [lpc EXCEPT ![t] = "waiting"]
  /\ wait_acquire' = [wait_acquire EXCEPT ![t] = a_acquire]
  /\ woken_by' = [woken_by EXCEPT ![t] = "none"]

\* Condition::Signal: pthread_cond_signal unblocks one of the blocked threads,
\* if there is one
ConditionSignal(t) ==
  /\ UNCHANGED otherThanCondition
  /\ Outside(t)
  /\ IF m_condition = {}
       THEN /\ lpc' = [lpc EXCEPT ![t] = "out"]
            /\ UNCHANGED <<m_condition, woken_by>>
       ELSE \E u \in m_condition :
              /\ m_condition' = m_condition \ {u}
              /\ lpc' = [lpc EXCEPT ![u] = "woken", ![t] = "out"]
              /\ woken_by' = [woken_by EXCEPT ![u] = "signal"]
  /\ UNCHANGED <<lock_mutex, wait_acquire>>

\* Condition::Broadcast: pthread_cond_broadcast unblocks all blocked threads
ConditionBroadcast(t) ==
  /\ UNCHANGED otherThanCondition
  /\ Outside(t)
  /\ m_condition' = {}
  /\ lpc' = [u \in Threads |-> IF u \in m_condition THEN "woken"
                               ELSE IF u = t THEN "out" ELSE lpc[u]]
  /\ woken_by' = [u \in Threads |-> IF u \in m_condition THEN "signal" ELSE woken_by[u]]
  /\ UNCHANGED <<lock_mutex, wait_acquire>>

\* pthread_cond_wait may unblock without a signal (POSIX spurious wake-up);
\* Wait has no loop round it
ConditionSpuriousWakeup(t) ==
  /\ UNCHANGED otherThanCondition
  /\ lpc[t] = "waiting"
  /\ m_condition' = m_condition \ {t}
  /\ lpc' = [lpc EXCEPT ![t] = "woken"]
  /\ woken_by' = [woken_by EXCEPT ![t] = "spurious"]
  /\ UNCHANGED <<lock_mutex, wait_acquire>>

\* the unblocked thread re-acquires the mutex and pthread_cond_wait returns
ConditionWait_Relock(t) ==
  /\ UNCHANGED otherThanCondition
  /\ lpc[t] = "woken"
  /\ lock_mutex = 0
  /\ lock_mutex' = t
  /\ lpc' = [lpc EXCEPT ![t] = "relocked"]
  /\ UNCHANGED <<m_condition, wait_acquire, woken_by>>

\* Wait: if (!a_acquire) m_lock->Release()
WaitReleases(a_acquire) == ~a_acquire

\* the end of Wait, after pthread_cond_wait
ConditionWait_Return(t) ==
  /\ UNCHANGED otherThanCondition
  /\ lpc[t] = "relocked"
  /\ lock_mutex' = IF WaitReleases(wait_acquire[t]) THEN 0 ELSE lock_mutex
  /\ lpc' = [lpc EXCEPT ![t] = "wait_done"]
  /\ UNCHANGED <<m_condition, wait_acquire, woken_by>>

ConditionNext ==
  \E t \in Threads :
    \/ LockAcquire(t)
    \/ LockTryAcquire(t)
    \/ LockRelease(t)
    \/ \E a_acquire \in BOOLEAN : ConditionWait(t, a_acquire)
    \/ ConditionSignal(t)
    \/ ConditionBroadcast(t)
    \/ ConditionSpuriousWakeup(t)
    \/ ConditionWait_Relock(t)
    \/ ConditionWait_Return(t)

(***************************************************************************)
(*                              data/String                                *)
(*                                                                         *)
(* A char is its code: 0 is the nul character, 97 is 'a', 65 is 'A'.       *)
(* The String object is the record string:                                 *)
(*   m_data      the char buffer, a function from the indices 0, 1, ... of *)
(*               the chars that were stored since the new[] that made it   *)
(*               (a char nothing was stored in is indeterminate: it has no *)
(*               entry, CellAt gives the mark Uninit for it and a load of  *)
(*               it can give any char)                                     *)
(*   allocated   the number of chars that new[] asked for                  *)
(*   m_used, m_capacity                                                    *)
(* As for the Array, an access to m_data[i] outside 0..allocated-1 is      *)
(* undefined behaviour: the call either crashes or goes on with the memory *)
(* next to the buffer.  m_used is a Size; the value 2^64 - 1 that --m_used *)
(* gives at 0 is written -1, and as an index it is the char in front of    *)
(* the buffer.                                                             *)
(***************************************************************************)
\* the i-th char the calls use: 'a', 'A', '1', then 'b', 'B', '2', ...
CharCode(i) ==
  CASE i % 3 = 1 -> 97 + (i \div 3)
    [] i % 3 = 2 -> 65 + (i \div 3)
    [] i % 3 = 0 -> 48 + (i \div 3)

Chars == {CharCode(i) : i \in 1..MaxChar}

\* the chars a load of an indeterminate char can give: whatever the memory
\* held, which may be the nul, a char of the calls, or another one
IndeterminateChars == {0, 127} \cup Chars

\* std::tolower and std::toupper of an unsigned char, in the "C" locale
tolower(a_char) == IF a_char \in 65..90 THEN a_char + 32 ELSE a_char
toupper(a_char) == IF a_char \in 97..122 THEN a_char - 32 ELSE a_char

\* #define DEFAULT_STRING_SIZE 1024
DEFAULT_STRING_SIZE == 1024

\* the string literals the calls are given: sequences of letters
Literals == UNION {[1..n -> Chars] : n \in 0..StrMaxLen}

\* the char array of a literal, with its terminating nul
CString(lit) == [i \in 0..Len(lit) |-> IF i < Len(lit) THEN lit[i + 1] ELSE 0]

\* std::strlen
RECURSIVE strlenFrom(_, _)
strlenFrom(c, i) == IF c[i] = 0 THEN i ELSE strlenFrom(c, i + 1)

strlen(c) == strlenFrom(c, 0)

\* new char[n]: nothing is stored yet
NewCharBuffer == [i \in {} |-> Uninit]

\* How a call ends: it returns and leaves the string s, or a VERIFY aborts;
\* oob says that the call accessed memory outside the buffer.
StrReturns(s, oob) == [str |-> s, end |-> "return", oob |-> oob]
StrAborts(s, oob) == [str |-> s, end |-> "abort", oob |-> oob]

\* std::copy_n(from, n, to) and the loops that copy n chars to to[at + i]
RECURSIVE copyChars(_, _, _, _, _)
copyChars(to, at, from, i, n) ==
  IF i < n
    THEN copyChars(WriteAt(to, at + i, CellAt(from, i)), at, from, i + 1, n)
    ELSE to

\* String::String()
NewString ==
  [m_data     |-> WriteAt(NewCharBuffer, 0, 0),
   allocated  |-> DEFAULT_STRING_SIZE + 1,
   m_used     |-> 0,
   m_capacity |-> DEFAULT_STRING_SIZE]

\* String::String(char a_char)
NewStringChar(a_char) ==
  [m_data     |-> WriteAt(WriteAt(NewCharBuffer, 0, a_char), 1, 0),
   allocated  |-> DEFAULT_STRING_SIZE + 1,
   m_used     |-> 1,
   m_capacity |-> DEFAULT_STRING_SIZE]

\* String::String(const char* a_string)
NewStringCString(a_string) ==
  LET used == strlen(a_string)
  IN  [m_data     |-> WriteAt(copyChars(NewCharBuffer, 0, a_string, 0, used), used, 0),
       allocated  |-> (used * 2) + 1,
       m_used     |-> used,
       m_capacity |-> used * 2]

\* String::String(const String& a_other)
CopyString(a_other) ==
  StrReturns([m_data     |-> WriteAt(copyChars(NewCharBuffer, 0, a_other.m_data, 0,
                                               a_other.m_used),
                                     a_other.m_used, 0),
              allocated  |-> (a_other.m_used * 2) + 1,
              m_used     |-> a_other.m_used,
              m_capacity |-> a_other.m_used * 2],
             a_other.m_used > a_other.allocated)

\* swap(String& a_left, String& a_right): std::swap of m_capacity, m_used
\* and m_data (allocated goes with the buffer).  The result is the two
\* strings after the call.
swap(a_left, a_right) == [left |-> a_right, right |-> a_left]

\* String::String(String&& a_other): String() and swap(*this, a_other).
\* The result is the new string and what is left in a_other.
MoveString(a_other) ==
  LET r == swap(NewString, a_other)
  IN  [str |-> r.left, other |-> r.right]

\* String::Resize; the new buffer has m_capacity chars
StrResize(s, a_capacity) ==
  IF ~(a_capacity >= s.m_used + 1) \/ ~(a_capacity > s.m_capacity)
    THEN StrAborts(s, FALSE)
    ELSE StrReturns([s EXCEPT !.m_capacity = a_capacity,
                              !.m_data = WriteAt(copyChars(NewCharBuffer, 0, s.m_data, 0,
                                                           s.m_used),
                                                 s.m_used, 0),
                              !.allocated = a_capacity],
                    s.m_used > s.allocated)

\* the part of the three Append that is the same: the Resize when total_len
\* >= m_capacity, the copy of other_len chars, m_used and the terminator
AppendChars(s, other_data, other_len) ==
  LET total_len == s.m_used + other_len
      g == IF total_len >= s.m_capacity
             THEN StrResize(s, total_len * 2)
             ELSE StrReturns(s, FALSE)
      d == copyChars(g.str.m_data, g.str.m_used, other_data, 0, other_len)
  IN  IF g.end = "abort"
        THEN g
        ELSE StrReturns([g.str EXCEPT !.m_data = WriteAt(d, total_len, 0),
                                      !.m_used = total_len],
                        g.oob \/ total_len >= g.str.allocated)

\* String::Append(const String& a_other)
AppendString(s, a_other) ==
  LET r == AppendChars(s, a_other.m_data, a_other.m_used)
  IN  [r EXCEPT !.oob = @ \/ a_other.m_used > a_other.allocated]

\* String::Append(const char* a_other)
AppendCString(s, a_other) == AppendChars(s, a_other, strlen(a_other))

\* String::Append(const char a_other)
AppendChar(s, a_other) == AppendChars(s, WriteAt(NewCharBuffer, 0, a_other), 1)

\* String::Clear
StrClear(s) ==
  StrReturns([s EXCEPT !.m_used = 0,
                       !.m_data = WriteAt(NewCharBuffer, 0, 0),
                       !.allocated = s.m_capacity + 1],
             FALSE)

\* Replace(char, '\0'): for (; i < m_used; ++i) if (m_data[i] == a_old) break
RECURSIVE firstChar(_, _, _, _)
firstChar(d, a_old, i, used) ==
  IF i < used /\ CellAt(d, i) # a_old THEN firstChar(d, a_old, i + 1, used) ELSE i

\* Replace(char, '\0'): for (; i < m_used; ++i) m_data[i] = m_data[i + 1]
RECURSIVE shiftLeft(_, _, _)
shiftLeft(d, i, used) ==
  IF i < used THEN shiftLeft(WriteAt(d, i, CellAt(d, i + 1)), i + 1, used) ELSE d

\* Replace(char, char), a_new # '\0': every m_data[i] == a_old becomes a_new
RECURSIVE replaceAll(_, _, _, _, _)
replaceAll(d, a_old, a_new, i, used) ==
  IF i < used
    THEN replaceAll(IF CellAt(d, i) # a_old THEN d ELSE WriteAt(d, i, a_new),
                    a_old, a_new, i + 1, used)
    ELSE d

\* Replace(char, '\0'): m_used--, whatever the search found
RemovedUsed(s, i) == s.m_used - 1

\* String::Replace(const char a_old, const char a_new)
ReplaceChar(s, a_old, a_new) ==
  IF a_new = 0
    THEN LET i    == firstChar(s.m_data, a_old, 0, s.m_used)
             d    == shiftLeft(s.m_data, i, s.m_used)
             used == RemovedUsed(s, i)
         IN  StrReturns([s EXCEPT !.m_data = IF used < 0 THEN d ELSE WriteAt(d, used, 0),
                                  !.m_used = used],
                        \/ s.m_used > s.allocated
                        \/ (i < s.m_used /\ s.m_used >= s.allocated)
                        \/ used < 0)
    ELSE StrReturns([s EXCEPT !.m_data = replaceAll(@, a_old, a_new, 0, s.m_used)],
                    s.m_used > s.allocated)

\* String::Remove
StrRemove(s, a_other) == ReplaceChar(s, a_other, 0)

\* ToLowerCase: std::transform(begin(), end(), m_data, tolower), over the
\* chars m_data[0] .. m_data[m_used - 1]
RECURSIVE lowerFrom(_, _, _)
lowerFrom(d, i, used) ==
  IF i < used THEN lowerFrom(WriteAt(d, i, tolower(CellAt(d, i))), i + 1, used) ELSE d

\* ToUpperCase: std::transform(begin(), end(), m_data, toupper)
RECURSIVE upperFrom(_, _, _)
upperFrom(d, i, used) ==
  IF i < used THEN upperFrom(WriteAt(d, i, toupper(CellAt(d, i))), i + 1, used) ELSE d

\* String::ToLowerCase
ToLowerCase(s) ==
  StrReturns([s EXCEPT !.m_data = lowerFrom(@, 0, s.m_used)], s.m_used > s.allocated)

\* String::ToUpperCase
ToUpperCase(s) ==
  StrReturns([s EXCEPT !.m_data = upperFrom(@, 0, s.m_used)], s.m_used > s.allocated)

\* Replace(String, String): for (Size j = 1; j < a_old.m_used; ++j)
\*   if (m_data[i + j] != a_old[j]) { found = false; break; }
\* top is the largest index of m_data that was loaded
RECURSIVE matchAt(_, _, _, _)
matchAt(d, a_old, i, j) ==
  IF j < a_old.m_used
    THEN IF CellAt(d, i + j) # CellAt(a_old.m_data, j)
           THEN [found |-> FALSE, top |-> i + j]
           ELSE matchAt(d, a_old, i, j + 1)
    ELSE [found |-> TRUE, top |-> i + j - 1]

\* Replace(String, String): the search loop; idx = -1 is the Size seq_idx = -1
RECURSIVE searchFrom(_, _, _, _)
searchFrom(s, a_old, i, top) ==
  IF i < s.m_used
    THEN IF CellAt(s.m_data, i) # CellAt(a_old.m_data, 0)
           THEN searchFrom(s, a_old, i + 1, IF i > top THEN i ELSE top)
           ELSE LET m == matchAt(s.m_data, a_old, i, 1)
                    t == IF m.top > top THEN m.top ELSE top
                IN  IF m.found THEN [idx |-> i, top |-> t]
                    ELSE searchFrom(s, a_old, i + 1, t)
    ELSE [idx |-> -1, top |-> top]

\* Replace(String, String): for (Size i = seq_idx; i < m_used; ++i)
\*   temp[a_new.m_used + i] = m_data[a_old.m_used + i]
RECURSIVE copyTail(_, _, _, _, _, _)
copyTail(temp, d, i, used, old_used, new_used) ==
  IF i < used
    THEN copyTail(WriteAt(temp, new_used + i, CellAt(d, old_used + i)), d, i + 1, used,
                  old_used, new_used)
    ELSE temp

\* Replace(String, String): if (new_length <= m_capacity) Resize(m_capacity * 2)
ReplaceMustResize(s, new_length) == new_length <= s.m_capacity

\* String::Replace(const String& a_old, const String& a_new)
ReplaceString(s, a_old, a_new) ==
  LET f          == searchFrom(s, a_old, 0, -1)
      seq_idx    == f.idx
      new_length == s.m_used - (a_old.m_used - a_new.m_used)
      g    == IF ReplaceMustResize(s, new_length)
                THEN StrResize(s, s.m_capacity * 2)
                ELSE StrReturns(s, FALSE)
      t1   == copyChars(NewCharBuffer, 0, g.str.m_data, 0, seq_idx)
      t2   == copyChars(t1, seq_idx, a_new.m_data, 0, a_new.m_used)
      t3   == copyTail(t2, g.str.m_data, seq_idx, g.str.m_used, a_old.m_used, a_new.m_used)
  IN  IF a_old.m_used = 0
        THEN StrAborts(s, FALSE)
        ELSE IF seq_idx = -1
          THEN StrReturns(s, f.top >= s.allocated)
          ELSE IF a_old.m_used = a_new.m_used
            THEN StrReturns([s EXCEPT !.m_data = copyChars(@, seq_idx, a_new.m_data, 0,
                                                           a_new.m_used)],
                            f.top >= s.allocated)
            ELSE IF g.end = "abort"
              THEN [g EXCEPT !.oob = @ \/ f.top >= s.allocated]
              ELSE StrReturns([g.str EXCEPT !.m_data = WriteAt(t3, new_length, 0),
                                            !.allocated = g.str.m_capacity + 1,
                                            !.m_used = new_length],
                              \/ f.top >= s.allocated
                              \/ g.oob
                              \/ a_old.m_used + g.str.m_used - 1 >= g.str.allocated
                              \/ a_new.m_used + g.str.m_used - 1 >= g.str.m_capacity + 1)

\* String::operator=(const String& a_other): m_used and m_capacity are taken
\* from a_other, m_data is a new buffer, and the chars are copied from
\* a_other.m_data.  a_this says that a_other is the String itself (s = s):
\* a_other.m_data is then the new buffer, and the chars copied are the ones
\* new char[] found in its memory, junk.
AssignString(s, a_other, a_this, junk) ==
  StrReturns([m_data     |-> WriteAt(copyChars(NewCharBuffer, 0,
                                               IF a_this THEN junk ELSE a_other.m_data,
                                               0, a_other.m_used),
                                     a_other.m_used, 0),
              allocated  |-> a_other.m_capacity + 1,
              m_used     |-> a_other.m_used,
              m_capacity |-> a_other.m_capacity],
             \/ a_other.m_used > a_other.m_capacity
             \/ ~a_this /\ a_other.m_used > a_other.allocated)

\* String::operator=(const char* a_string)
AssignCString(s, a_string) ==
  LET new_length == strlen(a_string)
      g == IF new_length >= s.m_capacity
             THEN StrResize(s, new_length * 2)
             ELSE StrReturns(s, FALSE)
  IN  IF g.end = "abort"
        THEN g
        ELSE StrReturns([g.str EXCEPT !.m_data = WriteAt(copyChars(@, 0, a_string, 0,
                                                                   new_length),
                                                         new_length, 0),
                                      !.m_used = new_length],
                        g.oob \/ new_length >= g.str.allocated)

\* const char& String::Get(a_index) const, and the const operator[]
StrGetConst(s, a_index) ==
  IF ~(a_index < s.m_used)
    THEN [end |-> "abort", value |-> 0, oob |-> FALSE]
    ELSE [end |-> "return", value |-> CellAt(s.m_data, a_index),
          oob |-> a_index >= s.allocated]

\* char& String::Get(a_index), and the non-const operator[]: no VERIFY; the
\* char at a_index may be one nothing was stored in
StrGet(s, a_index, junk) ==
  [end   |-> "return",
   value |-> ReadAt(s.m_data, a_index, junk),
   oob   |-> a_index >= s.allocated]

\* String::GetLength, String::GetSize
GetLength(s) == s.m_used

\* String::GetCapacity
GetCapacity(s) == s.m_capacity

\* the m_used chars of the string, as a sequence
Content(s) == [i \in 1..s.m_used |-> CellAt(s.m_data, i - 1)]

\* How a call can end the step: "ok" (it returned), "abort" (a VERIFY
\* failed), and "crash" as one more outcome of a call that went outside the
\* buffer
StringOutcomes(r) ==
  (IF r.end = "abort" THEN {"abort"} ELSE {"ok"}) \cup (IF r.oob THEN {"crash"} ELSE {})

\* One call on the string, ending as r says
StringStep(r, name) ==
  \E o \in StringOutcomes(r) :
    /\ string' = IF o = "ok" THEN r.str ELSE string
    /\ string_status' = o
    /\ string_stopped_in' = IF o = "ok" THEN "" ELSE name

StringInit ==
  /\ \/ string = NewString
     \/ \E c \in Chars : string = NewStringChar(c)
     \/ \E lit \in Literals : string = NewStringCString(CString(lit))
  /\ string_status = "ok"
  /\ string_stopped_in = ""

\* the String of a specification that does not use it
StringParked ==
  /\ string = NewString
  /\ string_status = "ok"
  /\ string_stopped_in = ""

\* a call can be made: the run has not ended and m_used has not wrapped round
StringCallable == string_status = "ok" /\ string.m_used >= 0

\* the strings and capacities the model explores
StringInBounds(used, grows, capacity) ==
  used <= StrMaxUsed /\ (grows => capacity <= StrMaxCapacity)

\* Append(const char*), which Append(int), Append(Size), Append(double),
\* Append(float) and Append(bool) forward to
StringAppendCString(lit) ==
  /\ UNCHANGED otherThanString
  /\ StringCallable
  /\ StringInBounds(string.m_used + Len(lit), string.m_used + Len(lit) >= string.m_capacity,
                    (string.m_used + Len(lit)) * 2)
  /\ StringStep(AppendCString(string, CString(lit)), "Append")

\* Append(const String&) of a String made from a literal
StringAppendString(lit) ==
  /\ UNCHANGED otherThanString
  /\ StringCallable
  /\ StringInBounds(string.m_used + Len(lit), string.m_used + Len(lit) >= string.m_capacity,
                    (string.m_used + Len(lit)) * 2)
  /\ StringStep(AppendString(string, NewStringCString(CString(lit))), "Append")

\* Append(const String&) of the string itself
StringAppendSelf ==
  /\ UNCHANGED otherThanString
  /\ StringCallable
  /\ StringInBounds(string.m_used * 2, string.m_used * 2 >= string.m_capacity,
                    string.m_used * 4)
  /\ StringStep(AppendString(string, string), "Append")

StringAppendChar(c) ==
  /\ UNCHANGED otherThanString
  /\ StringCallable
  /\ StringInBounds(string.m_used + 1, string.m_used + 1 >= string.m_capacity,
                    (string.m_used + 1) * 2)
  /\ StringStep(AppendChar(string, c), "Append")

StringRemove(c) ==
  /\ UNCHANGED otherThanString
  /\ StringCallable
  /\ StringStep(StrRemove(string, c), "Remove")

\* Replace(a_old, a_new) of chars; a_new = 0 is the removal
StringReplaceChar(a_old, a_new) ==
  /\ UNCHANGED otherThanString
  /\ StringCallable
  /\ StringStep(ReplaceChar(string, a_old, a_new), "Replace")

\* Replace(a_old, a_new) of Strings made from literals
StringReplaceString(old, new) ==
  /\ UNCHANGED otherThanString
  /\ StringCallable
  /\ StringInBounds(string.m_used - (Len(old) - Len(new)),
                    Len(old) # Len(new) /\
                      ReplaceMustResize(string, string.m_used - (Len(old) - Len(new))),
                    string.m_capacity * 2)
  /\ StringStep(ReplaceString(string, NewStringCString(CString(old)),
                              NewStringCString(CString(new))), "Replace")

StringClear ==
  /\ UNCHANGED otherThanString
  /\ StringCallable
  /\ StringStep(StrClear(string), "Clear")

StringResize(c) ==
  /\ UNCHANGED otherThanString
  /\ StringCallable
  /\ StringStep(StrResize(string, c), "Resize")

\* operator=(const char*)
StringAssignCString(lit) ==
  /\ UNCHANGED otherThanString
  /\ StringCallable
  /\ StringStep(AssignCString(string, CString(lit)), "operator=")

\* operator=(const String&) of a String made from a literal
StringAssignString(lit) ==
  /\ UNCHANGED otherThanString
  /\ StringCallable
  /\ StringStep(AssignString(string, NewStringCString(CString(lit)), FALSE, NewCharBuffer),
                "operator=")

\* operator=(const String&) of the string itself
StringAssignSelf ==
  /\ UNCHANGED otherThanString
  /\ StringCallable
  /\ \E junk \in [0..(string.m_used - 1) -> IndeterminateChars] :
       StringStep(AssignString(string, string, TRUE, junk), "operator=")

\* String(const String&); the run goes on with the copy
StringCopy ==
  /\ UNCHANGED otherThanString
  /\ StringCallable
  /\ StringStep(CopyString(string), "String")

\* String t(std::move(string)); the run goes on with t (a_new) or with the
\* string that was moved from
StringMove(a_new) ==
  /\ UNCHANGED otherThanString
  /\ StringCallable
  /\ LET r == MoveString(string)
     IN  StringStep(StrReturns(IF a_new THEN r.str ELSE r.other, FALSE), "String")

\* swap(string, t) with a String t made from a literal; the run goes on with
\* string (a_left) or with t
StringSwap(lit, a_left) ==
  /\ UNCHANGED otherThanString
  /\ StringCallable
  /\ LET r == swap(string, NewStringCString(CString(lit)))
     IN  StringStep(StrReturns(IF a_left THEN r.left ELSE r.right, FALSE), "swap")

StringToLowerCase ==
  /\ UNCHANGED otherThanString
  /\ StringCallable
  /\ StringStep(ToLowerCase(string), "ToLowerCase")

StringToUpperCase ==
  /\ UNCHANGED otherThanString
  /\ StringCallable
  /\ StringStep(ToUpperCase(string), "ToUpperCase")

\* Get(idx) or operator[](idx) on a const String
StringGetConst(idx) ==
  /\ UNCHANGED otherThanString
  /\ StringCallable
  /\ StringStep([str |-> string, end |-> StrGetConst(string, idx).end,
                 oob |-> StrGetConst(string, idx).oob], "Get")

\* Get(idx) or operator[](idx) on a non-const String
StringGet(idx) ==
  /\ UNCHANGED otherThanString
  /\ StringCallable
  /\ \E junk \in IndeterminateChars :
       StringStep([str |-> string, end |-> StrGet(string, idx, junk).end,
                   oob |-> StrGet(string, idx, junk).oob], "Get")

StringNext ==
  \/ \E lit \in Literals : StringAppendCString(lit)
  \/ \E lit \in Literals : StringAppendString(lit)
  \/ StringAppendSelf
  \/ \E c \in Chars : StringAppendChar(c)
  \/ \E c \in Chars : StringRemove(c)
  \/ \E a_old \in Chars, a_new \in Chars \cup {0} : StringReplaceChar(a_old, a_new)
  \/ \E old \in Literals, new \in Literals : StringReplaceString(old, new)
  \/ StringClear
  \/ \E c \in 0..StrMaxCapacity : StringResize(c)
  \/ \E lit \in Literals : StringAssignCString(lit)
  \/ \E lit \in Literals : StringAssignString(lit)
  \/ StringAssignSelf
  \/ StringCopy
  \/ \E a_new \in BOOLEAN : StringMove(a_new)
  \/ \E lit \in Literals, a_left \in BOOLEAN : StringSwap(lit, a_left)
  \/ StringToLowerCase
  \/ StringToUpperCase
  \/ \E idx \in 0..StrMaxUsed : StringGetConst(idx)
  \/ \E idx \in 0..StrMaxUsed : StringGet(idx)

\* every char below m_used has been stored in: an invariant of SpecString
LiveCharsStored ==
  string.m_used >= 0 =>
    \A i \in 0..(string.m_used - 1) : i \in DOMAIN string.m_data /\ string.m_data[i] # Uninit

(***************************************************************************)
(*                            data/List<int>                               *)
(*                                                                         *)
(* The List object and the nodes it allocates are the record list:         *)
(*   next, value   the fields of the Node at each address                  *)
(*   live          the addresses of the Nodes that are allocated (new Node *)
(*                 done, delete not yet)                                   *)
(*   m_head, m_tail, m_size                                                *)
(* The record holds the fields of the allocated Nodes only; at an address  *)
(* that is not allocated it keeps next = nullptr and value = Uninit, which *)
(* is not what that memory holds.  A load through a pointer to such an     *)
(* address is undefined behaviour: it finds what the memory there holds,   *)
(* the junk of that address, which the caller of the operator chooses, and *)
(* the call has "crash" as one more outcome.  So has a delete of a Node    *)
(* that is not allocated, which leaves the record as it is, and a store    *)
(* through such a pointer, which is lost unless new Node has handed the    *)
(* same address out again.  A load through nullptr ends the process.       *)
(* m_size is a Size; a negative m_size n stands for the value 2^64 + n     *)
(* that the decrement of 0 wraps round to.                                 *)
(***************************************************************************)
ListValues == 0..MaxValue

\* the addresses new Node can return: the head sentinel and MaxNodes more
Addresses == 1..(MaxNodes + 1)

nullptr == 0

\* the values of a Node*
Pointers == {nullptr} \cup Addresses

\* what the memory of one Node can hold where nothing has stored in it
NodeJunk == [next : Pointers, value : ListValues \cup {MaxValue + 1}]

\* what the memory at each address holds where a load finds no stored field:
\* the address is not allocated, or the value of the Node was never stored
ListJunk == [Addresses -> NodeJunk]

\* How a call ends: it returns a_value and leaves the list l, a VERIFY
\* aborts, the process crashes, or a loop never ends; oob says that the call
\* went through a pointer to an address that is not allocated.
ListReturns(l, a_value, oob) == [list |-> l, end |-> "return", value |-> a_value, oob |-> oob]
ListAborts(l) == [list |-> l, end |-> "abort", value |-> 0, oob |-> FALSE]
ListLoops(l, oob) == [list |-> l, end |-> "loop", value |-> 0, oob |-> oob]

\* new Node, which returns the address result
Allocate(l, result) == [l EXCEPT !.live = @ \cup {result}]

\* delete node; of an address that holds no allocated Node it leaves the
\* record as it is
Delete(l, node) ==
  IF node \in l.live
    THEN [l EXCEPT !.live = @ \ {node}, !.next[node] = nullptr, !.value[node] = Uninit]
    ELSE l

\* node->next = n
StoreNext(l, node, n) == IF node \in l.live THEN [l EXCEPT !.next[node] = n] ELSE l

\* node->next and node->value as a load finds them: the fields of the Node
\* when node is allocated (a value that was never stored is junk), the junk
\* of the address otherwise
Fields(l, node, junk) ==
  IF node \in l.live
    THEN [next  |-> l.next[node],
          value |-> IF l.value[node] = Uninit THEN junk[node].value ELSE l.value[node]]
    ELSE junk[node]

\* List::List()
NewList ==
  [next   |-> [a \in Addresses |-> nullptr],
   value  |-> [a \in Addresses |-> Uninit],
   live   |-> {1},
   m_head |-> 1,
   m_tail |-> 1,
   m_size |-> 0]

\* the allocated Nodes that the next fields link behind node, up to the
\* first pointer that is nullptr, that is no allocated Node or that leads
\* back into seen
RECURSIVE nodesFrom(_, _, _)
nodesFrom(l, node, seen) ==
  IF node = nullptr \/ node \notin l.live \/ node \in seen
    THEN <<>>
    ELSE <<node>> \o nodesFrom(l, l.next[node], seen \cup {node})

\* the Nodes linked behind the head sentinel
Nodes(l) ==
  IF l.m_head \in l.live THEN nodesFrom(l, l.next[l.m_head], {l.m_head}) ELSE <<>>

\* the values of these nodes
Elements(l) == [i \in 1..Len(Nodes(l)) |-> l.value[Nodes(l)[i]]]

\* List::InsertFront
InsertFront(l, a_element, result, junk) ==
  LET a      == Allocate(l, result)
      first  == Fields(l, l.m_head, junk).next
      n      == [a EXCEPT !.m_tail = IF first = nullptr THEN result ELSE @,
                          !.value[result] = a_element,
                          !.next[result] = first]
      linked == StoreNext(n, l.m_head, result)
  IN  ListReturns([linked EXCEPT !.m_size = @ + 1], result, l.m_head \notin l.live)

\* List::InsertBack: m_tail->next = result goes through m_tail whatever it
\* points to
InsertBack(l, a_element, result) ==
  LET a      == Allocate(l, result)
      n      == [a EXCEPT !.value[result] = a_element, !.next[result] = nullptr]
      linked == StoreNext(n, l.m_tail, result)
  IN  ListReturns([linked EXCEPT !.m_tail = result, !.m_size = @ + 1],
                  result, l.m_tail \notin l.live)

\* List::InsertAfter
InsertAfter(l, a_node, a_element, result, junk) ==
  IF a_node = nullptr
    THEN ListAborts(l)
    ELSE LET a      == Allocate(l, result)
             after  == Fields(l, a_node, junk).next
             n      == [a EXCEPT !.value[result] = a_element,
                                 !.next[result] = after,
                                 !.m_tail = IF after = nullptr THEN result ELSE @]
             linked == StoreNext(n, a_node, result)
         IN  ListReturns([linked EXCEPT !.m_size = @ + 1], result, a_node \notin l.live)

\* RemoveElement: while (curr->next) { if (curr->next->value == a_element)
\* ... break; curr = curr->next; }.  curr of the result is the node in
\* front of the first node that holds a_element, nullptr when the loop ends
\* without a break; seen are the nodes curr has been at: the loop never
\* ends when it comes to one of them again
RECURSIVE beforeElement(_, _, _, _, _, _)
beforeElement(l, curr, a_element, junk, seen, oob) ==
  LET nxt == Fields(l, curr, junk).next
      o   == oob \/ curr \notin l.live
  IN  IF curr \in seen THEN [end |-> "loop", curr |-> nullptr, oob |-> oob]
      ELSE IF nxt = nullptr THEN [end |-> "return", curr |-> nullptr, oob |-> o]
      ELSE IF Fields(l, nxt, junk).value = a_element
             THEN [end |-> "return", curr |-> curr, oob |-> o \/ nxt \notin l.live]
      ELSE beforeElement(l, nxt, a_element, junk, seen \cup {curr}, o)

\* auto* temp = curr->next->next; delete curr->next; curr->next = temp;
\* if (!curr->next) m_tail = curr
Unlink(l, curr, junk) ==
  LET nxt  == Fields(l, curr, junk).next
      temp == Fields(l, nxt, junk).next
      d    == Delete(l, nxt)
      s    == StoreNext(d, curr, temp)
  IN  ListReturns([s EXCEPT !.m_tail = IF temp = nullptr THEN curr ELSE @],
                  0, nxt \notin l.live \/ curr \notin d.live)

\* List::RemoveElement; m_size-- follows the loop
LstRemoveElement(l, a_element, junk) ==
  LET b == beforeElement(l, l.m_head, a_element, junk, {}, FALSE)
      u == Unlink(l, b.curr, junk)
  IN  IF b.end # "return" THEN [list |-> l, end |-> b.end, value |-> FALSE, oob |-> b.oob]
      ELSE IF b.curr = nullptr THEN ListReturns([l EXCEPT !.m_size = @ - 1], FALSE, b.oob)
      ELSE ListReturns([u.list EXCEPT !.m_size = @ - 1], TRUE, b.oob \/ u.oob)

\* List::RemoveAfter
RemoveAfter(l, a_node, junk) ==
  LET u == Unlink(l, a_node, junk)
  IN  IF a_node = nullptr THEN ListAborts(l)
      ELSE IF Fields(l, a_node, junk).next = nullptr
             THEN [ListAborts(l) EXCEPT !.oob = a_node \notin l.live]
      ELSE ListReturns([u.list EXCEPT !.m_size = @ - 1], 0, u.oob)

\* Clear: while (curr) { auto* tmp = curr->next; delete curr; curr = tmp; }.
\* seen are the addresses without an allocated Node that curr has been at
\* since the last Node was deleted: the loop never ends when it comes to
\* one of them again
RECURSIVE deleteFrom(_, _, _, _, _)
deleteFrom(l, curr, junk, seen, oob) ==
  IF curr = nullptr THEN ListReturns(l, 0, oob)
  ELSE IF curr \in l.live THEN deleteFrom(Delete(l, curr), l.next[curr], junk, {}, oob)
  ELSE IF curr \in seen THEN ListLoops(l, TRUE)
  ELSE deleteFrom(l, junk[curr].next, junk, seen \cup {curr}, TRUE)

\* List::Clear: m_head->next = nullptr; m_size = 0
LstClear(l, junk) ==
  LET d == deleteFrom(l, Fields(l, l.m_head, junk).next, junk, {}, l.m_head \notin l.live)
  IN  IF d.end # "return" THEN d
      ELSE ListReturns([StoreNext(d.list, l.m_head, nullptr) EXCEPT !.m_size = 0],
                       0, d.oob \/ l.m_head \notin d.list.live)

\* the loop of List(const List&): while (curr2->next) { curr2 = curr2->next;
\* ... node->value = curr2->value; ... }.  vals of the result are the values
\* it copies; the loop never ends (new Node after new Node) when curr2
\* comes to a node of seen again
RECURSIVE valuesFrom(_, _, _, _, _)
valuesFrom(l, curr2, junk, seen, oob) ==
  LET nxt == Fields(l, curr2, junk).next
      o   == oob \/ curr2 \notin l.live
  IN  IF curr2 \in seen THEN [end |-> "loop", vals |-> <<>>, oob |-> oob]
      ELSE IF nxt = nullptr THEN [end |-> "return", vals |-> <<>>, oob |-> o]
      ELSE LET rest == valuesFrom(l, nxt, junk, seen \cup {curr2}, o \/ nxt \notin l.live)
           IN  [rest EXCEPT !.vals = <<Fields(l, nxt, junk).value>> \o @]

\* List::List(const List& a_other): a new head and one new node per node
\* of a_other, m_size(a_other.m_size), m_tail = the last new node.  The copy
\* takes the place of the list and a_other is destroyed; the new nodes are
\* given the addresses 2, 3, ... behind the head at 1.  curr1->next is
\* stored inside the loop only: for an a_other without nodes m_head->next
\* of the copy is never stored and holds head_next, what new Node found in
\* the memory it returned.
CopyList(a_other, junk, head_next) ==
  LET v    == valuesFrom(a_other, a_other.m_head, junk, {}, FALSE)
      vals == v.vals
      n    == Len(vals)
  IN  IF v.end # "return"
        THEN [list |-> a_other, end |-> v.end, value |-> 0, oob |-> v.oob]
        ELSE ListReturns([next   |-> [a \in Addresses |->
                                        IF a <= n THEN a + 1
                                        ELSE IF a = 1 THEN head_next ELSE nullptr],
                          value  |-> [a \in Addresses |->
                                        IF 2 <= a /\ a <= n + 1 THEN vals[a - 1] ELSE Uninit],
                          live   |-> 1..(n + 1),
                          m_head |-> 1,
                          m_tail |-> n + 1,
                          m_size |-> a_other.m_size],
                         0, v.oob)

\* The copy assignment the compiler generates (List declares none) copies
\* m_head, m_tail and m_size: l = a_other, after which a_other is destroyed
\* (~List is Clear(), which goes through the m_head they share).  l takes
\* the place of the list; the nodes l had are never deleted.
AssignList(a_other, junk) ==
  LET c == LstClear(a_other, junk)
  IN  IF c.end # "return" THEN c
      ELSE ListReturns([c.list EXCEPT !.m_size = a_other.m_size], 0, c.oob)

\* FindElement: while (curr->next) { curr = curr->next; if (curr->value ==
\* a_element) break; }: curr of the result is the first node that holds
\* a_element or the last node
RECURSIVE findFrom(_, _, _, _, _, _)
findFrom(l, curr, a_element, junk, seen, oob) ==
  LET nxt == Fields(l, curr, junk).next
      o   == oob \/ curr \notin l.live
  IN  IF curr \in seen THEN [end |-> "loop", curr |-> nullptr, oob |-> oob]
      ELSE IF nxt = nullptr THEN [end |-> "return", curr |-> curr, oob |-> o]
      ELSE IF Fields(l, nxt, junk).value = a_element
             THEN [end |-> "return", curr |-> nxt, oob |-> o \/ nxt \notin l.live]
      ELSE findFrom(l, nxt, a_element, junk, seen \cup {curr}, o)

\* List::FindElement: return curr == m_head ? nullptr : curr
FindElement(l, a_element, junk) ==
  LET f == findFrom(l, l.m_head, a_element, junk, {}, FALSE)
  IN  [list  |-> l,
       end   |-> f.end,
       value |-> IF f.curr = l.m_head THEN nullptr ELSE f.curr,
       oob   |-> f.oob]

\* for (it = begin(); it != end(); ++it) from it on, e being end(): nodes
\* of the result are the nodes visited.  operator++ is m_ptr = m_ptr->next,
\* a load through nullptr when it is nullptr and e is not; seen are the
\* nodes visited so far
RECURSIVE visitFrom(_, _, _, _, _, _)
visitFrom(l, it, e, junk, seen, oob) ==
  IF it = e THEN [end |-> "return", nodes |-> <<>>, oob |-> oob]
  ELSE IF it = nullptr THEN [end |-> "crash", nodes |-> <<>>, oob |-> oob]
  ELSE IF it \in seen THEN [end |-> "loop", nodes |-> <<>>, oob |-> oob]
  ELSE LET rest == visitFrom(l, Fields(l, it, junk).next, e, junk,
                             seen \cup {it}, oob \/ it \notin l.live)
       IN  [rest EXCEPT !.nodes = <<it>> \o @]

\* An iteration over the List: begin() is Iterator(m_head->next) and end()
\* is Iterator(m_tail->next)
LstIterate(l, junk) ==
  LET i == visitFrom(l, Fields(l, l.m_head, junk).next, Fields(l, l.m_tail, junk).next,
                     junk, {}, l.m_head \notin l.live \/ l.m_tail \notin l.live)
  IN  [list |-> l, end |-> i.end, value |-> i.nodes, oob |-> i.oob]

\* List::GetHead, GetFront, GetBack, IsEmpty, GetSize
GetHead(l) == l.m_head
GetFront(l, junk) == Fields(l, l.m_head, junk).next
GetBack(l) == l.m_tail
IsEmpty(l, junk) == Fields(l, l.m_head, junk).next = nullptr
LstGetSize(l) == l.m_size

\* How a call can end the step: "ok" (it returned), "abort" (a VERIFY
\* failed), "hang" (a loop never ends), "crash", and "crash" as one more
\* outcome of a call that went through a pointer to an address that is not
\* allocated
ListOutcomes(r) ==
  (CASE r.end = "return" -> {"ok"}
     [] r.end = "abort"  -> {"abort"}
     [] r.end = "loop"   -> {"hang"}
     [] r.end = "crash"  -> {"crash"})
  \cup (IF r.oob THEN {"crash"} ELSE {})

\* One call on the list, ending as r says
ListStep(r, name) ==
  \E o \in ListOutcomes(r) :
    /\ list' = IF o = "ok" THEN r.list ELSE list
    /\ list_status' = o
    /\ list_stopped_in' = IF o = "ok" THEN "" ELSE name

ListInit ==
  /\ list = NewList
  /\ list_status = "ok"
  /\ list_stopped_in = ""

\* the List of a specification that does not use it
ListParked == ListInit

\* the node pointers a caller holds: nullptr, GetHead(), GetFront(),
\* GetBack() and the nodes of the list
NodePointers(l) ==
  {nullptr, l.m_head, l.m_tail} \cup (IF l.m_head \in l.live THEN {l.next[l.m_head]} ELSE {})
    \cup {Nodes(l)[i] : i \in 1..Len(Nodes(l))}

\* the next fields behind node lead over allocated Nodes to nullptr
RECURSIVE endsAtNull(_, _, _)
endsAtNull(l, node, seen) ==
  \/ node = nullptr
  \/ node \in l.live /\ node \notin seen /\ endsAtNull(l, l.next[node], seen \cup {node})

\* no call on l loads through a pointer to an address that is not allocated
\* or loads a value that was never stored: every allocated Node leads over
\* allocated Nodes to nullptr, and every one but the head holds a value
Sound(l) ==
  /\ l.m_head \in l.live
  /\ l.m_tail \in l.live
  /\ \A a \in l.live :
       /\ endsAtNull(l, l.next[a], {a})
       /\ a # l.m_head => l.value[a] # Uninit

\* the ListJunk that hold any pointer at the addresses of P, any value at
\* the addresses of V, and nullptr and 0 elsewhere
JunkOver(P, V) ==
  {[a \in Addresses |-> [next  |-> IF a \in P THEN p[a] ELSE nullptr,
                         value |-> IF a \in V THEN v[a] ELSE 0]] :
     p \in [P -> Pointers], v \in [V -> ListValues \cup {MaxValue + 1}]}

\* the addresses that hold no allocated Node, and those at which a load of
\* the value finds none stored
Unallocated(l) == Addresses \ l.live
Unstored(l) == {a \in Addresses : a \notin l.live \/ l.value[a] = Uninit}

\* the junk the calls on l are explored with, which differs only where a
\* call can load it: nowhere for a Sound l; else for a call that deletes
\* Nodes and goes on (Clear) the next of every address, for a call that
\* loads values (RemoveElement, the copy) the next of the addresses that
\* are not allocated and the values not stored, and for the other calls
\* the next of the addresses that are not allocated
JunkForDelete(l) == IF Sound(l) THEN JunkOver({}, {}) ELSE JunkOver(Addresses, {})
JunkForValues(l) == IF Sound(l) THEN JunkOver({}, {}) ELSE JunkOver(Unallocated(l), Unstored(l))
JunkFor(l) == IF Sound(l) THEN JunkOver({}, {}) ELSE JunkOver(Unallocated(l), {})

\* the sizes the model explores
ListSizeInBounds(size) == size \in (0 - MaxNodes)..MaxNodes

ListInsertFront(e) ==
  /\ UNCHANGED otherThanList
  /\ list_status = "ok"
  /\ ListSizeInBounds(list.m_size + 1)
  /\ \E result \in Addresses \ list.live, junk \in JunkFor(list) :
       ListStep(InsertFront(list, e, result, junk), "InsertFront")

ListInsertBack(e) ==
  /\ UNCHANGED otherThanList
  /\ list_status = "ok"
  /\ ListSizeInBounds(list.m_size + 1)
  /\ \E result \in Addresses \ list.live :
       ListStep(InsertBack(list, e, result), "InsertBack")

ListInsertAfter(a_node, e) ==
  /\ UNCHANGED otherThanList
  /\ list_status = "ok"
  /\ ListSizeInBounds(list.m_size + 1)
  /\ a_node \in NodePointers(list)
  /\ \E result \in Addresses \ list.live, junk \in JunkFor(list) :
       ListStep(InsertAfter(list, a_node, e, result, junk), "InsertAfter")

ListRemoveElement(e) ==
  /\ UNCHANGED otherThanList
  /\ list_status = "ok"
  /\ ListSizeInBounds(list.m_size - 1)
  /\ \E junk \in JunkForValues(list) :
       ListStep(LstRemoveElement(list, e, junk), "RemoveElement")

ListRemoveAfter(a_node) ==
  /\ UNCHANGED otherThanList
  /\ list_status = "ok"
  /\ ListSizeInBounds(list.m_size - 1)
  /\ a_node \in NodePointers(list)
  /\ \E junk \in JunkFor(list) :
       ListStep(RemoveAfter(list, a_node, junk), "RemoveAfter")

ListClear ==
  /\ UNCHANGED otherThanList
  /\ list_status = "ok"
  /\ \E junk \in JunkForDelete(list) :
       ListStep(LstClear(list, junk), "Clear")

ListCopy ==
  /\ UNCHANGED otherThanList
  /\ list_status = "ok"
  /\ \E junk \in JunkForValues(list), head_next \in Pointers :
       ListStep(CopyList(list, junk, head_next), "List(const List&)")

ListAssign ==
  /\ UNCHANGED otherThanList
  /\ list_status = "ok"
  /\ \E junk \in JunkForDelete(list) :
       ListStep(AssignList(list, junk), "operator=")

ListIterate ==
  /\ UNCHANGED otherThanList
  /\ list_status = "ok"
  /\ \E junk \in JunkFor(list) :
       ListStep(LstIterate(list, junk), "Iterate")

ListNext ==
  \/ \E e \in ListValues : ListInsertFront(e)
  \/ \E e \in ListValues : ListInsertBack(e)
  \/ \E a_node \in Pointers, e \in ListValues : ListInsertAfter(a_node, e)
  \/ \E e \in ListValues : ListRemoveElement(e)
  \/ \E a_node \in Pointers : ListRemoveAfter(a_node)
  \/ ListClear
  \/ ListCopy
  \/ ListAssign
  \/ ListIterate

(***************************************************************************)
(* The specifications: one per component.                                  *)
(***************************************************************************)
\* the Lock and the Condition of a specification that does not use them
LockParked == LockInit

InitSharedLock == SharedLockInit /\ MapParked /\ ArrayParked /\ LockParked /\ StringParked
                  /\ ListParked

SpecSharedLock == InitSharedLock /\ [][SharedLockNext]_vars

InitMap == SharedLockInit /\ MapInit /\ ArrayParked /\ LockParked /\ StringParked
                  /\ ListParked

SpecMap == InitMap /\ [][MapNext]_vars

SpecMapCopy == InitMap /\ [][MapCopyNext]_vars

InitArray == SharedLockInit /\ MapParked /\ ArrayInit /\ LockParked /\ StringParked
                  /\ ListParked

SpecArray == InitArray /\ [][ArrayNext]_vars

InitCondition == SharedLockInit /\ MapParked /\ ArrayParked /\ LockInit /\ StringParked
                 /\ ListParked

SpecCondition == InitCondition /\ [][ConditionNext]_vars

InitString == SharedLockInit /\ MapParked /\ ArrayParked /\ LockParked /\ StringInit
              /\ ListParked

SpecString == InitString /\ [][StringNext]_vars

InitList == SharedLockInit /\ MapParked /\ ArrayParked /\ LockParked /\ StringParked
            /\ ListInit

SpecList == InitList /\ [][ListNext]_vars

\* the scheduling the liveness claims assume: a thread that holds the mutex
\* keeps running, a thread that was let in eventually calls EndRead/EndWrite,
\* and a thread that is at pthread_mutex_lock is not passed over forever
SharedLockFairness ==
  \A t \in Threads :
    /\ WF_vars(SharedLockRun(t))
    /\ WF_vars(SharedLockEnd(t))
    /\ SF_vars(SharedLockAcquire(t))

SpecSharedLockFair == InitSharedLock /\ [][SharedLockNext]_vars /\ SharedLockFairness

\* between the return of StartRead and the end of its EndRead
InRead(t) == pc[t] \in {"reading", "er_lock", "er_body"}
\* between the return of StartWrite and the end of its EndWrite
InWrite(t) == pc[t] \in {"writing", "ew_lock", "ew_body"}
\* has called StartWrite and not returned from it
InStartWrite(t) == pc[t] \in {"sw_lock", "sw_inc", "sw_test", "sw_wait", "sw_relock"}
\* has called StartRead and not returned from it
InStartRead(t) == pc[t] \in {"sr_lock", "sr_test", "sr_wait"}

(***************************************************************************)
(* C1: SharedLock mutual exclusion. No thread is inside a write section    *)
(* while another thread is inside a read or a write section.               *)
(***************************************************************************)
C1_MutualExclusion ==
  \A t, u \in Threads :
    (t # u /\ InWrite(t)) => ~(InWrite(u) \/ InRead(u))

\* a writer is inside while a second writer and a reader are blocked on it
C1_Witness ==
  \E t, u, w \in Threads :
    /\ InWrite(t)
    /\ pc[u] = "sw_wait"
    /\ pc[w] = "sr_wait"

\* two readers are inside at the same time
C1_WitnessReaders ==
  \E t, u \in Threads : t # u /\ InRead(t) /\ InRead(u)

(***************************************************************************)
(* C2: SharedLock writer preference. No step increments m_reader_count     *)
(* (no StartRead returns) while m_writer_count # 0, that is while a writer *)
(* is waiting or writing.                                                  *)
(***************************************************************************)
C2_WriterPreference ==
  [][m_reader_count' > m_reader_count => m_writer_count = 0]_vars

\* a reader is held back by a writer that is itself still waiting for readers
C2_Witness ==
  \E t, u \in Threads :
    /\ pc[t] = "sr_wait"
    /\ pc[u] = "sw_wait"
    /\ ~m_is_writing
    /\ m_reader_count > 0

(***************************************************************************)
(* C3: SharedLock writer non-starvation.                                   *)
(* As claimed: every thread that has called StartWrite eventually returns  *)
(* from it.  Under fair scheduling this fails: a waiting writer can be     *)
(* overtaken by other writers again and again (the lock has no order among *)
(* writers).                                                               *)
(* As amended: a thread that has called StartWrite is not held back by     *)
(* readers; eventually it, or another writer, returns from StartWrite.     *)
(***************************************************************************)
C3_EveryWriterReturns ==
  \A t \in Threads : InStartWrite(t) ~> (pc[t] = "writing")

C3_WritersNotStarvedByReaders ==
  \A t \in Threads : InStartWrite(t) ~> (\E u \in Threads : pc[u] = "writing")

\* a writer waits for readers to leave while a further reader is held back
C3_Witness ==
  \E t, u, w \in Threads :
    /\ pc[t] = "sw_wait"
    /\ InRead(u)
    /\ InStartRead(w)

(***************************************************************************)
(*                        Claims about data/Map                            *)
(***************************************************************************)
\* the slots marked used
LiveSlots(m) == {i \in 0..(m.m_capacity - 1) : m.m_entries[i].used}

\* some slot marked used holds a_key
KeyPresent(m, a_key) == \E i \in LiveSlots(m) : m.m_entries[i].key = a_key

\* the number of slots marked used that hold a_key
KeyCount(m, a_key) == Cardinality({i \in LiveSlots(m) : m.m_entries[i].key = a_key})

\* linear probing from the home slot of the key in slot i arrives at slot i:
\* every slot on the way is marked used
SlotReached(m, i) ==
  LET home == keyToIndex(m, m.m_entries[i].key)
      dist == (i - home + m.m_capacity) % m.m_capacity
  IN  \A j \in 0..(dist - 1) : m.m_entries[(home + j) % m.m_capacity].used

\* Exists(a_key) returns true; Exists(a_key) returns false
ExistsTrue(m, a_key) == Exists(m, a_key) = [value |-> TRUE, end |-> "return"]
ExistsFalse(m, a_key) == Exists(m, a_key) = [value |-> FALSE, end |-> "return"]

\* the table has a slot that is not marked used
HasUnusedSlot(m) == \E i \in 0..(m.m_capacity - 1) : ~m.m_entries[i].used

(***************************************************************************)
(* C4: Map probe-chain reachability. Every slot marked used is reached by  *)
(* linear probing from its key's home slot before an unused slot is hit,   *)
(* and Exists succeeds for its key.                                        *)
(***************************************************************************)
C4_ProbeChainReachable ==
  \A i \in LiveSlots(map) :
    SlotReached(map, i) /\ ExistsTrue(map, map.m_entries[i].key)

(***************************************************************************)
(* C5: Map round-trip. When the table is growable or has an unused slot,   *)
(* Insert(k, v) returns and Get(k) straight after it returns v.            *)
(***************************************************************************)
C5_InsertGetRoundTrip ==
  [][\A k \in Keys, v \in Values :
       (MapInsert(k, v) /\ (map.m_growable \/ HasUnusedSlot(map)))
         => /\ map_status' = "ok"
            /\ Get(map', k) = [value |-> v, end |-> "return"]]_vars

\* a growable table with grow factor 1/2 that was doubled from capacity 1 to 2 by
\* the second Insert holds the colliding keys 0 and 2, key 2 pushed off its home
\* slot 0, and Get(2) returns the inserted value
C5_Witness ==
  /\ map_status = "ok"
  /\ map.m_growable
  /\ map.m_grow_factor = <<1, 2>>
  /\ map.m_capacity = 2
  /\ map.m_used = 2
  /\ map.m_entries[0] = [key |-> 0, value |-> 1, used |-> TRUE]
  /\ map.m_entries[1] = [key |-> 2, value |-> 1, used |-> TRUE]
  /\ Get(map, 2) = [value |-> 1, end |-> "return"]

(***************************************************************************)
(* C6: Map load invariant. After every completed operation                 *)
(* used < capacity.                                                        *)
(***************************************************************************)
C6_LoadInvariant == map.m_used < map.m_capacity

(***************************************************************************)
(* C7: Map::Resize preserves content. Resize(c) with c > capacity leaves   *)
(* GetSize() unchanged and Get(k) returns the value it returned before,    *)
(* for every key Get found before.                                         *)
(***************************************************************************)
C7_ResizePreservesContent ==
  [][\A c \in 1..MaxCapacity :
       (MapResize(c) /\ c > map.m_capacity)
         => /\ map_status' = "ok"
            /\ GetSize(map') = GetSize(map)
            /\ \A k \in Keys : ExistsTrue(map, k) => Get(map', k) = Get(map, k)]_vars

(***************************************************************************)
(* C8: Map overwrite on equal key. Insert(k, v2) on a map that holds k     *)
(* stores v2 for k, leaves GetSize() unchanged and leaves one entry for k. *)
(***************************************************************************)
C8_InsertOverwrites ==
  [][\A k \in Keys, v \in Values :
       (MapInsert(k, v) /\ KeyPresent(map, k))
         => /\ map_status' = "ok"
            /\ Get(map', k) = [value |-> v, end |-> "return"]
            /\ GetSize(map') = GetSize(map)
            /\ KeyCount(map', k) = 1]_vars

(***************************************************************************)
(* C9: Map::Remove removes the key. Where Exists(k) holds, Remove(k)       *)
(* decreases GetSize() by one and Exists(k) is false afterwards; for a key *)
(* that is not in the map Remove(k) fails (aborts) and changes nothing.    *)
(***************************************************************************)
C9_RemoveRemoves ==
  [][\A k \in Keys :
       MapRemove(k)
         => /\ ExistsTrue(map, k)
                 => /\ map_status' = "ok"
                    /\ GetSize(map') = GetSize(map) - 1
                    /\ ExistsFalse(map', k)
            /\ ~KeyPresent(map, k)
                 => /\ map_status' = "abort"
                    /\ map' = map]_vars

(***************************************************************************)
(*                        Claims about data/Array                          *)
(***************************************************************************)

(***************************************************************************)
(* C10: Array size invariant. After every call that returned -- Insert,    *)
(* Insert at an index, Remove, RemoveElement, Swap, Sort, Resize, Clear    *)
(* and copy construction, on growable and non-growable arrays -- used <=   *)
(* capacity holds.                                                         *)
(***************************************************************************)
C10_UsedWithinCapacity ==
  array_status = "ok" => array.m_used <= array.m_capacity

\* the live elements m_data[0 .. m_used - 1] are in ascending order
Ascending(a) == \A i \in 0..(a.m_used - 2) : CellAt(a.m_data, i) <= CellAt(a.m_data, i + 1)

\* how often v is among the live elements
CountOf(a, v) == Cardinality({i \in 0..(a.m_used - 1) : CellAt(a.m_data, i) = v})

\* the live elements of b are those of a and one more e
OneMore(a, b, e) ==
  \A v \in ArrValues : CountOf(b, v) = CountOf(a, v) + (IF v = e THEN 1 ELSE 0)

\* an insert of e into a that ended as r, if it returned, left the live
\* elements ascending and added e to them
InsertedInOrder(a, r, e) ==
  r.end = "return" => Ascending(r.arr) /\ OneMore(a, r.arr, e)

(***************************************************************************)
(* C11: Array keep_sorted ordering. On an array with keep_sorted = true    *)
(* every Insert(value) and Insert(value, index) that returns, growth       *)
(* included, leaves the live elements ascending and adds exactly the       *)
(* inserted value to them.                                                 *)
(***************************************************************************)
C11_KeepSortedInserts ==
  (array_status = "ok" /\ array.m_keep_sorted) =>
    \A e \in ArrValues :
      /\ InsertedInOrder(array, ArrInsert(array, e), e)
      /\ \A idx \in 0..array.m_used :
           InsertedInOrder(array, ArrInsertAt(array, e, idx), e)

\* a keep_sorted array that has grown from capacity 1 or 2 to 4 holds 0, 0, 1
C11_Witness ==
  /\ array_status = "ok"
  /\ array.m_keep_sorted /\ array.m_growable
  /\ array.m_capacity = 4 /\ array.allocated = 4
  /\ array.m_used = 3
  /\ array.m_data[0] = 0 /\ array.m_data[1] = 0 /\ array.m_data[2] = 1

FlagAfter(r, flag) == r.end = "return" => r.arr.m_sorted = flag

FindsOrMinusOne(a, v) ==
  LET f == Find(a, v)
  IN  IF CountOf(a, v) > 0
        THEN f \in 0..(a.m_used - 1) /\ CellAt(a.m_data, f) = v
        ELSE f = -1

(***************************************************************************)
(* C13: Array::Find on a sorted array. Whenever the sorted flag is true,   *)
(* Find(v) returns an index i < used with Get(i) = v if v occurs in the    *)
(* array and -1 if v does not occur.                                       *)
(***************************************************************************)
C13_FindSorted ==
  (array_status = "ok" /\ array.m_sorted) => \A v \in ArrValues : FindsOrMinusOne(array, v)

\* a reference linear scan from index 0: the lowest index of v, -1 if none
ReferenceScan(a, v) ==
  LET hits == {i \in 0..(a.m_used - 1) : CellAt(a.m_data, i) = v}
  IN  IF hits = {} THEN -1 ELSE CHOOSE i \in hits : \A j \in hits : i <= j

(***************************************************************************)
(* C14: Array::Find on an unsorted array. Whenever the sorted flag is      *)
(* false, Find(v) returns the index a linear scan from index 0 returns:    *)
(* the lowest i with element i equal to v, or -1.  Stated for the arrays   *)
(* whose live elements are all inside the buffer.                          *)
(***************************************************************************)
C14_FindUnsorted ==
  (array_status = "ok" /\ ~array.m_sorted /\ array.m_used <= array.allocated)
    => \A v \in ArrValues : Find(array, v) = ReferenceScan(array, v)

(***************************************************************************)
(* C15: Array::RemoveElement. In every array state, sorted or unsorted,    *)
(* RemoveElement(value) of a value that does not occur returns -1 and      *)
(* leaves the array as it is; of a value that occurs it removes one        *)
(* occurrence of the value and returns the index it was at.                *)
(***************************************************************************)
C15_RemoveElement ==
  array_status = "ok" =>
    \A e \in ArrValues :
      LET r == RemoveElement(array, e)
      IN  IF CountOf(array, e) = 0
            THEN r.end = "return" /\ r.value = -1 /\ r.arr = array
            ELSE /\ r.end = "return"
                 /\ r.value \in 0..(array.m_used - 1)
                 /\ CellAt(array.m_data, r.value) = e
                 /\ r.arr.m_used = array.m_used - 1
                 /\ OneMore(r.arr, array, e)

(***************************************************************************)
(* C16: Array::Remove(index) with index < used returns the value that was  *)
(* stored at index before the call; afterwards the elements before index   *)
(* are unchanged, those after it are moved left by one, used is one less,  *)
(* capacity is unchanged, and the call has not accessed memory outside the *)
(* buffer.                                                                 *)
(***************************************************************************)
C16_RemoveAtIndex ==
  (array_status = "ok" /\ array.m_used <= array.allocated) =>
    \A idx \in 0..(array.m_used - 1), junk \in Indeterminate :
      LET r == ArrRemove(array, idx, junk)
      IN  /\ r.end = "return"
          /\ r.value = array.m_data[idx]
          /\ \A i \in 0..(idx - 1) : r.arr.m_data[i] = array.m_data[i]
          /\ \A i \in idx..(array.m_used - 2) : r.arr.m_data[i] = array.m_data[i + 1]
          /\ r.arr.m_used = array.m_used - 1
          /\ r.arr.m_capacity = array.m_capacity
          /\ ~r.oob

(***************************************************************************)
(* C17: Array::Sort agreement. For every content of the array, the empty   *)
(* one included, Sort with each of the four algorithms returns and leaves  *)
(* the live elements ascending, a permutation of what they were, used      *)
(* unchanged and the sorted flag true; the four results are therefore the  *)
(* same sequence.                                                          *)
(***************************************************************************)
C17_SortAgreement ==
  (array_status = "ok" /\ array.m_used <= array.allocated) =>
    \A alg \in SortAlgorithms :
      LET r == Sort(array, alg)
      IN  /\ r.end = "return"
          /\ Ascending(r.arr)
          /\ \A v \in ArrValues : CountOf(r.arr, v) = CountOf(array, v)
          /\ r.arr.m_used = array.m_used
          /\ r.arr.m_sorted

(***************************************************************************)
(* C18: Array::GetSubArray. For every from and to with from <= to <= used, *)
(* to = used included, GetSubArray(from, to) returns an array of size      *)
(* to - from that holds the elements from .. to - 1 of the source in       *)
(* order.  Stated for the non-empty ranges, from < to.                     *)
(***************************************************************************)
C18_GetSubArray ==
  (array_status = "ok" /\ array.m_used <= array.allocated) =>
    \A from \in 0..array.m_used, to \in 0..array.m_used :
      from < to =>
        LET r == GetSubArray(array, from, to)
        IN  /\ r.end = "return"
            /\ r.arr.m_used = to - from
            /\ \A i \in 0..(to - from - 1) : r.arr.m_data[i] = array.m_data[from + i]

(***************************************************************************)
(* C19: Array::Insert(value) returns the index the inserted element is at  *)
(* when the call returns: Get(returned index) = value, for keep_sorted     *)
(* false and true.                                                         *)
(***************************************************************************)
C19_InsertReturnsIndex ==
  (array_status = "ok" /\ array.m_used <= array.allocated) =>
    \A e \in ArrValues :
      LET r == ArrInsert(array, e)
      IN  r.end = "return" =>
            /\ r.value \in 0..(r.arr.m_used - 1)
            /\ CellAt(r.arr.m_data, r.value) = e

\* what C20 asks of an insert of e that ended as r on the growable array a
GrowsAndInserts(a, r, e) ==
  /\ r.end = "return"
  /\ ~r.oob
  /\ r.arr.m_used = a.m_used + 1
  /\ OneMore(a, r.arr, e)
  /\ r.arr.m_capacity = IF a.m_used = a.m_capacity THEN 2 * a.m_capacity ELSE a.m_capacity

(***************************************************************************)
(* C20: Array growth on insert. On a growable array with used = capacity   *)
(* Insert(value) and Insert(value, index), for every index in 0..used,     *)
(* double the capacity and then succeed: capacity is twice the old one,    *)
(* used is one more and the previous elements are still there; with used   *)
(* < capacity the capacity is unchanged.  Stated for the arrays of         *)
(* capacity 1 or more whose buffer has m_capacity chunks.                  *)
(***************************************************************************)
C20_GrowthOnInsert ==
  (/\ array_status = "ok"
   /\ array.m_growable
   /\ array.m_capacity > 0
   /\ array.allocated = array.m_capacity
   /\ array.m_used <= array.m_capacity) =>
    \A e \in ArrValues :
      /\ GrowsAndInserts(array, ArrInsert(array, e), e)
      /\ \A idx \in 0..array.m_used :
           GrowsAndInserts(array, ArrInsertAt(array, e, idx), e)

\* what C21 asks of Insert(e, idx) on a: old[0..idx), e, old[idx..used)
InsertedAt(a, r, e, idx) ==
  /\ r.end = "return"
  /\ r.arr.m_used = a.m_used + 1
  /\ r.arr.m_capacity = a.m_capacity
  /\ ~r.arr.m_sorted
  /\ \A i \in 0..a.m_used :
       CellAt(r.arr.m_data, i) = IF i < idx THEN CellAt(a.m_data, i)
                                 ELSE IF i = idx THEN e
                                 ELSE CellAt(a.m_data, i - 1)
  /\ a.m_used < a.allocated => ~r.oob

(***************************************************************************)
(* C21: Array::Insert(value, index) positional semantics. On an array with *)
(* keep_sorted = false and used < capacity, for every index in 0..used the *)
(* call returns with old[0..index), value, old[index..used) as the live    *)
(* elements, used one more and the sorted flag false, and stays inside the *)
(* buffer when the buffer has a chunk for the new element; for index >     *)
(* used the call aborts and the array is unchanged.                        *)
(***************************************************************************)
C21_InsertAtPositional ==
  (/\ array_status = "ok"
   /\ ~array.m_keep_sorted
   /\ array.m_used < array.m_capacity) =>
    \A e \in ArrValues, idx \in 0..(ArrMaxCapacity + 1) :
      LET r == ArrInsertAt(array, e, idx)
      IN  IF idx <= array.m_used
            THEN InsertedAt(array, r, e, idx)
            ELSE r.end = "abort" /\ r.arr = array /\ ~r.oob

\* an unsorted array with room that holds 0, 1: an insert of 0 between or
\* behind them, or of 1 in front, has to move the suffix
C21_Witness ==
  /\ array_status = "ok"
  /\ ~array.m_keep_sorted
  /\ array.m_used = 2 /\ array.m_capacity > 2 /\ array.allocated = array.m_capacity
  /\ array.m_data[0] = 0 /\ array.m_data[1] = 1

(***************************************************************************)
(* C22: out-of-range access is fatal. Every indexed access of the array    *)
(* with an index outside 0..used-1 aborts: Get and operator[], Remove and  *)
(* Swap for every index >= used, GetFirst and GetLast on an empty array.   *)
(***************************************************************************)
C22_OutOfRangeAborts ==
  array_status = "ok" =>
    /\ \A idx \in array.m_used..ArrMaxCapacity :
         /\ ArrGet(array, idx).end = "abort"
         /\ \A junk \in Indeterminate : ArrRemove(array, idx, junk).end = "abort"
         /\ \A j \in 0..ArrMaxCapacity :
              Swap(array, idx, j).end = "abort" /\ Swap(array, j, idx).end = "abort"
    /\ array.m_used = 0 =>
         \A junk \in Indeterminate :
           GetFirst(array, junk).end = "abort" /\ GetLast(array, junk).end = "abort"

(***************************************************************************)
(* C23: Lock::TryAcquire returns true exactly when the calling thread      *)
(* obtained the lock (it was free and is now held by the caller) and false *)
(* exactly when the lock was held and was not obtained.                    *)
(***************************************************************************)
C23_TryAcquireReportsOutcome ==
  \A t \in Threads :
    (Outside(t) /\ lock_mutex # t) =>
      LET r == TryAcquire(lock_mutex, t)
      IN  /\ r.value = (lock_mutex = 0 /\ r.mutex = t)
          /\ ~r.value = (lock_mutex # 0 /\ r.mutex = lock_mutex)

\* while the thread is blocked in Wait, or unblocked and not yet running
\* again, it does not hold the lock
WaitReleasedLock(t) == lpc[t] \in {"waiting", "woken"} => lock_mutex # t

\* after Wait has returned the caller holds the lock if a_acquire was true
\* and does not hold it if a_acquire was false
WaitReturnedLock(t) ==
  lpc[t] = "wait_done" => IF wait_acquire[t] THEN lock_mutex = t ELSE lock_mutex # t

(***************************************************************************)
(* C24: Condition::Wait releases the lock while the thread is blocked,     *)
(* returns only after a Signal or a Broadcast, and on return the caller    *)
(* holds the lock if reacquire is true and does not hold it if reacquire   *)
(* is false.                                                               *)
(***************************************************************************)
C24_WaitReturnsOnlyWhenSignalled ==
  \A t \in Threads :
    /\ WaitReleasedLock(t)
    /\ WaitReturnedLock(t)
    /\ lpc[t] \in {"woken", "relocked", "wait_done"} => woken_by[t] = "signal"

(***************************************************************************)
(* C25: String terminator invariant. After every String operation, also on *)
(* an empty string, used is a valid length within the buffer and           *)
(* data[used] is the nul character.                                        *)
(***************************************************************************)
C25_TerminatorInvariant ==
  string_status = "ok" =>
    /\ string.m_used >= 0
    /\ string.m_used < string.allocated
    /\ CellAt(string.m_data, string.m_used) = 0

\* what C26 asks of an Append of the chars operand to s that ended as r
Appended(s, r, operand) ==
  /\ r.end = "return"
  /\ r.str.m_capacity >= r.str.m_used + 1
  /\ Content(r.str) = Content(s) \o operand
  /\ r.str.m_capacity = IF s.m_used + Len(operand) >= s.m_capacity
                          THEN 2 * (s.m_used + Len(operand))
                          ELSE s.m_capacity

(***************************************************************************)
(* C26: String::Append capacity guarantee. For every String, also one made *)
(* from the empty literal (capacity 0), and every operand, also the empty  *)
(* one, Append returns, and afterwards capacity >= used + 1 and the        *)
(* content is the old content followed by the operand; when growth is      *)
(* needed the new capacity is twice the new total length.                  *)
(***************************************************************************)
C26_AppendCapacity ==
  StringCallable =>
    /\ \A lit \in Literals :
         /\ Appended(string, AppendCString(string, CString(lit)), lit)
         /\ Appended(string, AppendString(string, NewStringCString(CString(lit))), lit)
    /\ \A c \in Chars : Appended(string, AppendChar(string, c), <<c>>)

\* old is in c at the positions p .. p + Len(old) - 1
OccursAt(c, old, p) ==
  p + Len(old) - 1 <= Len(c) /\ \A k \in 1..Len(old) : c[p + k - 1] = old[k]

\* the position of the first occurrence of old in c, 0 when there is none
FirstOccurrence(c, old) ==
  IF \E p \in 1..Len(c) : OccursAt(c, old, p)
    THEN CHOOSE p \in 1..Len(c) :
           OccursAt(c, old, p) /\ \A q \in 1..(p - 1) : ~OccursAt(c, old, q)
    ELSE 0

\* c with its first occurrence of old replaced by new
FirstReplaced(c, old, new) ==
  LET p == FirstOccurrence(c, old)
  IN  IF p = 0 THEN c
      ELSE SubSeq(c, 1, p - 1) \o new \o SubSeq(c, p + Len(old), Len(c))

(***************************************************************************)
(* C27: String::Replace(old, new) on substrings. If old occurs in the      *)
(* string the result is the text before the first occurrence, then new,    *)
(* then the text after that occurrence (so the length changes by           *)
(* new.length - old.length and later occurrences are untouched); if old    *)
(* does not occur the string is unchanged.                                 *)
(***************************************************************************)
C27_ReplaceFirstOccurrence ==
  StringCallable =>
    \A old \in Literals \ {<<>>}, new \in Literals :
      LET r == ReplaceString(string, NewStringCString(CString(old)),
                             NewStringCString(CString(new)))
      IN  /\ r.end = "return"
          /\ Content(r.str) = FirstReplaced(Content(string), old, new)
          /\ FirstOccurrence(Content(string), old) = 0 => r.str = string

\* what C28 asks of a removal of the char c from s that ended as r
CharRemoved(s, r, c) ==
  /\ r.end = "return"
  /\ Content(r.str) = FirstReplaced(Content(s), <<c>>, <<>>)
  /\ r.str.m_used = Len(FirstReplaced(Content(s), <<c>>, <<>>))

(***************************************************************************)
(* C28: String character removal. Replace(c, nul) and Remove(c) delete     *)
(* exactly the first occurrence of c (the tail moves left by one, the      *)
(* length is one less) and leave every other character in place; when c    *)
(* does not occur, also on an empty string, content and length are         *)
(* unchanged.                                                              *)
(***************************************************************************)
C28_CharRemoval ==
  StringCallable =>
    \A c \in Chars :
      /\ CharRemoved(string, ReplaceChar(string, c, 0), c)
      /\ CharRemoved(string, StrRemove(string, c), c)

\* the visited slots are in increasing order
Increasing(visited) == \A i \in 1..(Len(visited) - 1) : visited[i] < visited[i + 1]

(***************************************************************************)
(* C29: Map iteration. From begin(), operator++ visits exactly the live    *)
(* entries, each once, in increasing slot order, and is equal to end()     *)
(* after exactly GetSize() increments, without reading or advancing beyond *)
(* the one-past-capacity slot; for an empty map begin() = end().           *)
(***************************************************************************)
C29_MapIteration ==
  map_status = "ok" =>
    \A past \in BOOLEAN :
      LET v == Iterate(map, past)
      IN  /\ Increasing(v.visited)
          /\ {v.visited[i] : i \in 1..Len(v.visited)} = LiveSlots(map)
          /\ Len(v.visited) = GetSize(map)
          /\ v.ptr = end(map)
          /\ ~v.oob
          /\ GetSize(map) = 0 => begin(map).ptr = end(map)

\* whenever the mutex is free, a thread blocked in StartRead has a writer
\* counted and a thread blocked in StartWrite has a reader or a writer inside:
\* the EndWrite that brought m_writer_count to 0 and the EndRead that brought
\* m_reader_count to 0 have unblocked the threads that waited for it
NoneBlockedInVain ==
  m_mutex = 0 =>
    \A t \in Threads :
      /\ pc[t] = "sr_wait" => m_writer_count # 0
      /\ pc[t] = "sw_wait" => (m_reader_count # 0 \/ m_is_writing)

\* only finitely many calls of StartWrite are made
FinitelyManyStartWrite == <>[][\A t \in Threads : ~StartWrite_Call(t)]_vars

(***************************************************************************)
(* C30: SharedLock has no lost wake-ups. Under fair scheduling, if every   *)
(* thread that returned from StartRead or StartWrite later calls the       *)
(* matching EndRead or EndWrite and only finitely many StartWrite calls    *)
(* are made, every thread that has called StartRead eventually returns     *)
(* from it and every thread that has called StartWrite eventually returns  *)
(* from it; and no thread stays blocked once the EndWrite or EndRead it    *)
(* waited for has cleared its condition.                                   *)
(***************************************************************************)
C30_NoLostWakeups ==
  /\ []NoneBlockedInVain
  /\ FinitelyManyStartWrite =>
       \A t \in Threads :
         /\ InStartRead(t) ~> pc[t] = "reading"
         /\ InStartWrite(t) ~> pc[t] = "writing"

\* a reader and a writer are blocked in pthread_cond_wait while a third
\* thread is writing
C30_Witness ==
  \E t \in Threads, u \in Threads, w \in Threads :
    /\ pc[t] = "sr_wait" /\ t \in m_no_writers_left
    /\ pc[u] = "sw_wait" /\ u \in m_is_only_access
    /\ pc[w] = "writing"

\* what C31 asks of Swap(i, j) on a: the elements at i and j exchanged and
\* nothing else touched but the sorted flag
Swapped(a, r, i, j) ==
  /\ r.end = "return"
  /\ CellAt(r.arr.m_data, i) = CellAt(a.m_data, j)
  /\ CellAt(r.arr.m_data, j) = CellAt(a.m_data, i)
  /\ \A k \in (0..(a.m_used - 1)) \ {i, j} :
       CellAt(r.arr.m_data, k) = CellAt(a.m_data, k)
  /\ r.arr.m_used = a.m_used
  /\ r.arr.m_capacity = a.m_capacity
  /\ r.arr.allocated = a.allocated
  /\ r.arr.m_keep_sorted = a.m_keep_sorted
  /\ r.arr.m_growable = a.m_growable
  /\ ~r.arr.m_sorted
  /\ (i < a.allocated /\ j < a.allocated) => ~r.oob

(***************************************************************************)
(* C31: Array::Swap(i, j) with i, j < used returns with the elements at i  *)
(* and j exchanged, every other element, used and capacity unchanged and   *)
(* the sorted flag false, whatever the flag was and also when i = j or the *)
(* elements are equal; the same Swap applied to the result gives back the  *)
(* original element sequence.                                              *)
(***************************************************************************)
C31_SwapExchanges ==
  array_status = "ok" =>
    \A i, j \in 0..(array.m_used - 1) :
      LET r  == Swap(array, i, j)
          rr == Swap(r.arr, i, j)
      IN  /\ Swapped(array, r, i, j)
          /\ rr.end = "return"
          /\ \A k \in 0..(array.m_used - 1) :
               CellAt(rr.arr.m_data, k) = CellAt(array.m_data, k)
          /\ ~rr.arr.m_sorted

\* a Swap has just returned on an array that holds 0, 1, ... or 1, 0, ...:
\* the flag is false although the elements may be ascending, and the next
\* Swap(0, 1) has two different elements to exchange
C31_Witness ==
  /\ array_status = "ok"
  /\ array.m_used >= 2 /\ array.m_used <= array.allocated
  /\ array.m_data[0] = 0 /\ array.m_data[1] = 1
  /\ ~array.m_sorted

(***************************************************************************)
(*                    More claims about data/Map                           *)
(***************************************************************************)

\* the keys held by the slots marked used
PresentKeys(m) == {m.m_entries[i].key : i \in LiveSlots(m)}

(***************************************************************************)
(* C32: Map key uniqueness. After every sequence of Insert, At, Remove and *)
(* Resize that returned, no two slots marked used hold the same key, and   *)
(* GetSize() is the number of distinct keys present.                       *)
(***************************************************************************)
C32_KeyUniqueness ==
  map_status = "ok" =>
    /\ \A k \in Keys : KeyCount(map, k) <= 1
    /\ GetSize(map) = Cardinality(PresentKeys(map))

\* the copy r of the map m has the size and the key-to-value content of m
SameContent(m, r) ==
  /\ r.end = "return"
  /\ GetSize(r.map) = GetSize(m)
  /\ \A k \in Keys :
       /\ Exists(r.map, k) = Exists(m, k)
       /\ ExistsTrue(m, k) => Get(r.map, k) = Get(m, k)

(***************************************************************************)
(* C33: Map size bookkeeping. After every sequence of operations that      *)
(* returned, construction by either copy constructor included, GetSize()   *)
(* is the number of slots marked used; and a map copy-constructed from the *)
(* map, with or without a capacity (larger than that of the source), has   *)
(* the GetSize() and the key-to-value content of the source.               *)
(***************************************************************************)
C33_SizeBookkeeping ==
  map_status = "ok" =>
    /\ GetSize(map) = Cardinality(LiveSlots(map))
    /\ \A past \in PastLoads(map) :
         /\ SameContent(map, CopyMap(map, past))
         /\ \A c \in (map.m_capacity + 1)..MaxCapacity :
              SameContent(map, CopyMapWithCapacity(map, c, past))

(***************************************************************************)
(* C34: Map probing terminates. In every reachable map state, for every    *)
(* key, present or absent, the probe loops of Exists and Find (find), Get, *)
(* At, Insert and Remove come to an end: no call runs round a table        *)
(* without an unused slot forever.                                         *)
(***************************************************************************)
C34_ProbingTerminates ==
  map_status = "ok" =>
    \A k \in Keys :
      /\ find(map, k).end # "loop"
      /\ Exists(map, k).end # "loop"
      /\ Get(map, k).end # "loop"
      /\ At(map, k).end # "loop"
      /\ Remove(map, k).end # "loop"
      /\ \A v \in Values : Insert(map, k, v).end # "loop"

(***************************************************************************)
(*                   More claims about data/Array                          *)
(***************************************************************************)

(***************************************************************************)
(* C35: Array storage bound. After every Array operation that returned,    *)
(* copy construction and Sort(MERGE_SORT) included, the allocated buffer   *)
(* has at least capacity chunks, and an Insert while used < capacity       *)
(* stays inside the buffer.                                                *)
(***************************************************************************)
C35_StorageBound ==
  array_status = "ok" =>
    /\ array.allocated >= array.m_capacity
    /\ array.m_used < array.m_capacity =>
         \A e \in ArrValues : ~ArrInsert(array, e).oob

(***************************************************************************)
(* C37: Array sorted-flag soundness. In every state reached through the    *)
(* Array operations, with every sort algorithm, and in every array that    *)
(* GetSubArray returns from such a state, the sorted flag being true       *)
(* implies that the live elements are in ascending order.                  *)
(***************************************************************************)
C37_SortedFlagSound ==
  array_status = "ok" =>
    /\ array.m_sorted => Ascending(array)
    /\ \A from, to \in 0..ArrMaxCapacity :
         LET r == GetSubArray(array, from, to)
         IN  (r.end = "return" /\ r.arr.m_sorted) => Ascending(r.arr)

\* an array without keep_sorted that holds 0, 1, 1 and has the flag true (a
\* Sort set it: Insert clears it), and the sub-array 0, 1 taken from it has
\* the flag true as well
C37_Witness ==
  /\ array_status = "ok"
  /\ ~array.m_keep_sorted
  /\ array.m_sorted
  /\ array.m_used = 3 /\ array.m_used <= array.allocated
  /\ array.m_data[0] = 0 /\ array.m_data[1] = 1 /\ array.m_data[2] = 1
  /\ GetSubArray(array, 0, 2).end = "return"
  /\ GetSubArray(array, 0, 2).arr.m_sorted

(***************************************************************************)
(*                   More claims about data/String                         *)
(***************************************************************************)

(***************************************************************************)
(* C36: String buffer bound. After every String operation that returned,   *)
(* used + 1 is at most the size of the allocated buffer, so the content    *)
(* and its terminator lie inside it; in particular after a Replace(old,    *)
(* new) with new longer than old.                                          *)
(***************************************************************************)
C36_BufferBound ==
  string_status = "ok" => string.m_used + 1 <= string.allocated

(***************************************************************************)
(*                        Claims about data/List                           *)
(***************************************************************************)

\* a_element is the value of a node of the list
InList(l, a_element) == \E i \in 1..Len(Nodes(l)) : Elements(l)[i] = a_element

(***************************************************************************)
(* C38: List size bookkeeping. After every sequence of InsertFront,        *)
(* InsertBack, InsertAfter, RemoveElement, RemoveAfter and Clear that      *)
(* returned, GetSize() is the number of nodes reached from the head        *)
(* sentinel; and RemoveElement of a value that is not in the list returns  *)
(* false and leaves GetSize() and the contents as they were.               *)
(***************************************************************************)
C38_ListSizeBookkeeping ==
  list_status = "ok" =>
    /\ LstGetSize(list) = Len(Nodes(list))
    /\ \A v \in ListValues, junk \in ListJunk :
         ~InList(list, v) =>
           LET r == LstRemoveElement(list, v, junk)
           IN  /\ r.end = "return"
               /\ r.value = FALSE
               /\ LstGetSize(r.list) = LstGetSize(list)
               /\ Elements(r.list) = Elements(list)

\* the last node reached from the head sentinel, the sentinel itself when
\* there is none
LastNode(l) == IF Nodes(l) = <<>> THEN l.m_head ELSE Nodes(l)[Len(Nodes(l))]

(***************************************************************************)
(* C39: List tail invariant. After every sequence of List operations that  *)
(* returned, the tail pointer (GetBack) is the last node reached from the  *)
(* head sentinel, the sentinel itself when the list is empty; and Clear()  *)
(* followed by InsertBack(x) gives a list that is not empty, has size 1    *)
(* and has x at its front and at its back.                                 *)
(***************************************************************************)
C39_ListTailInvariant ==
  list_status = "ok" =>
    /\ GetBack(list) = LastNode(list)
    /\ \A x \in ListValues, junk \in ListJunk :
         LET c == LstClear(list, junk)
         IN  /\ c.end = "return"
             /\ \A result \in Addresses \ c.list.live :
                  LET r == InsertBack(c.list, x, result)
                  IN  /\ r.end = "return" /\ ~r.oob
                      /\ ~IsEmpty(r.list, junk)
                      /\ LstGetSize(r.list) = 1
                      /\ GetFront(r.list, junk) = GetBack(r.list)
                      /\ Elements(r.list) = <<x>>

=============================================================================
